---- MODULE Spec2Model ----
(***************************************************************************)
(* The ZIP-queue scrapers of CarsComScraper as state machines:             *)
(*   scraper_single_page2.py  ("sp2"): one JSON file, one browser per      *)
(*                                      attempt, one CSV per ZIP;          *)
(*   car.com_updated.py       ("car"): every JSON file of a folder, one    *)
(*                                      browser per worker, ZIPs taken in  *)
(*                                      batches, one CSV per state.        *)
(* A behaviour of Spec runs one of the two scripts; car.com_updated may be *)
(* run again on the files its earlier runs left behind.                    *)
(*   scraper_single_page.py   ("ssp"): SpecSsp, one call of scrape_state:  *)
(*                                      one browser shared by the threads  *)
(*                                      that scrape the dealers of a page. *)
(* SpecStart follows the loop with which both ZIP-queue scrapers start     *)
(* their workers, on queues longer than THREAD_COUNT.                      *)
(***************************************************************************)
EXTENDS Integers, Sequences, FiniteSets, TLC

\* ------------------------------------------------------------ bounds
MaxZips == 2      \* longest ZIP list of a JSON file
MaxFiles == 2     \* most JSON files car.com_updated opens in one behaviour
MaxRuns == 2      \* runs of car.com_updated over the same file system
MaxBatch == 2     \* largest BATCH_SIZE the configuration is drawn from
MaxPages == 2     \* scrape_state: pages_range is (1, MaxPages + 1)
MaxCards == 2     \* most dealer cards on a listing page
MaxRange == 2     \* zipcode: numbers kept of each USPS range
MaxMatches == 2   \* zipcode: most five-digit matches on a state's page
MaxRows == 3      \* blackbox: most lines of the uploaded file after the first
MaxChanged == 2   \* blackbox: most groups of widgets the user changes
MaxQueue == 12    \* the start of the workers: longest queue main has filled
MaxPostFiles == 2 \* merge, repeatcheck: most CSV files of the source folder
MaxPostRows == 2  \* merge, repeatcheck: most data rows of a CSV file
MaxSourceRows == 3 \* remove_null: most data rows of the source file
MaxOutRows == 4     \* remove_outliers_z: most rows of the frame it is called on

\* --------------------------------------------------- program constants
SP2_THREAD_COUNT == 10
SP2_MAX_RETRIES == 3
CAR_THREAD_COUNT == 5
CAR_MAX_RETRIES == 2
DRIVER_RETRIES == 3      \* initialize_driver: max_retries
INVENTORY_RETRIES == 3   \* scrape_inventory_page: max_retries
DEALER_WORKERS == 4      \* scrape_state: ThreadPoolExecutor(max_workers=4)
REMAINDER == 10          \* scrape_state: len(local_dealers) % 10

VARIABLES
  script,              \* which script this behaviour runs
  BATCH_SIZE,          \* car: the configured batch size (20 in the source; it acts
                       \* only through min(BATCH_SIZE, qsize), so it is drawn
                       \* from 1..MaxBatch to lie below and above the queue lengths)
  run,                 \* number of the current run
  input_ok,            \* the ZIP file / ZIP folder exists
  mainpc,              \* position of the main thread
  files_left,          \* car: JSON files of json_files not yet visited
  zip_json_len,        \* len(zip_json) of the file loaded last, -1 before any
  state_abbr,
  zip_queue,           \* Queue(): sequence of entries, head first
  total_zipcodes,
  threads,             \* number of worker threads started
  th,                  \* per worker: position and locals
  progress_lock,       \* 0 = free, else the worker holding it
  report_list,
  completed_zipcodes,
  progress_bar,        \* tqdm's counter n
  all_data,            \* car
  output_file,         \* car: <<>> while the global is unbound
  fs,                  \* the CSV files on disk: path -> lines
  last_report,         \* the report file written last
  reports_written,     \* report files written by this run
  csv_written,         \* this run has written a CSV file
  browsers,            \* this run has started a browser
  shown,               \* this run has started a browser that is not headless
  queued,              \* the entries main put on the queue (current file)
  taken,               \* per entry id: how many times a worker obtained it
  fails,               \* per entry id: failed scrape attempts so far
  opened,              \* JSON files opened so far, over all runs
  skipped_zips,        \* car: the ZIPs of the current file found in the CSV
  succeeded,           \* car: <<run, state, zip>> of every success row so far
  \* ---- scraper_single_page, scrape_state
  ssp_pc,              \* position of the thread that runs scrape_state
  init_attempt,        \* initialize_driver: attempt
  driver_doc,          \* the document the state's one browser holds
  page,
  futures,             \* per dealer card of the page: its scrape_dealer call
  page_dealers,
  local_dealers,
  record_count,
  pbar,                \* the state's tqdm counter
  state_files,         \* the state's folder: <<start, end>> -> rows of the CSV
  zip_file,            \* <state>.zip: whether it was made, and of which files
  \* ---- zipcode, main
  zc_pc,               \* position of main
  choice,              \* the line read by input(), stripped
  zip_data,            \* scraper.zip_data, in insertion order: <<state, list>>
  zc_i,                \* the loop index of the method or of the save
  json_files,          \* folder zipcode: file stem -> the JSON object written
  \* ---- blackbox, one browser session
  bb_pc,               \* where the session is: start, stopped, shown, set, applied
  uploaded,            \* the lines of the uploaded file
  header_row,
  df_raw,
  widgets,             \* the values of the widgets of lines 138-176
  apply_btn,
  df_out,
  changes,
  steps,               \* the operations of the last run, with their frames
  warning,             \* st.warning was called
  exception,           \* the run ended in an exception that nothing caught
  download_button,     \* the run offered "Download cleaned CSV"
  \* ---- the loop that starts the workers, on queues longer than THREAD_COUNT
  start_n,             \* the length of range(min(THREAD_COUNT, qsize)), -1 before
  alive,               \* worker threads started and not yet ended
  \* ---- merge, merge_unique, remove_null, repeatcheck: one run
  post_pc,             \* start, done, exit, again
  post_in,             \* the CSV files the script finds, in listing order
  post_out,            \* the files the run has written
  post_again           \* remove_null: the output of a run on post_out

vars == << script, BATCH_SIZE, run, input_ok, mainpc, files_left, zip_json_len,
           state_abbr, zip_queue,
           total_zipcodes, threads, th, progress_lock, report_list,
           completed_zipcodes, progress_bar, all_data, output_file, fs,
           last_report, reports_written, csv_written, browsers, shown, queued,
           taken, fails, opened, skipped_zips, succeeded,
           ssp_pc, init_attempt, driver_doc, page, futures, page_dealers,
           local_dealers, record_count, pbar, state_files, zip_file,
           zc_pc, choice, zip_data, zc_i, json_files,
           bb_pc, uploaded, header_row, df_raw, widgets, apply_btn, df_out,
           changes, steps, warning, exception, download_button,
           start_n, alive, post_pc, post_in, post_out, post_again >>

\* the variables of scraper_single_page
sspvars == << ssp_pc, init_attempt, driver_doc, page, futures, page_dealers,
             local_dealers, record_count, pbar, state_files, zip_file >>

\* the variables the two ZIP-queue scrapers do not have
\* the variables of zipcode
zcvars == << zc_pc, choice, zip_data, zc_i, json_files >>

\* the variables of blackbox
bbvars == << bb_pc, uploaded, header_row, df_raw, widgets, apply_btn, df_out,
            changes, steps, warning, exception, download_button >>

\* the variables of the loop that starts the workers
startvars == << start_n, alive >>

\* the variables of the scripts that work on the scraped CSV files
postvars == << post_pc, post_in, post_out, post_again >>

othervars == << sspvars, zcvars, bbvars, startvars, postvars >>

\* ------------------------------------------------------------ helpers
Min(a, b) == IF a < b THEN a ELSE b

THREAD_COUNT == IF script = "sp2" THEN SP2_THREAD_COUNT ELSE CAR_THREAD_COUNT
MAX_RETRIES == IF script = "sp2" THEN SP2_MAX_RETRIES ELSE CAR_MAX_RETRIES

\* min(THREAD_COUNT, zip_queue.qsize()) never exceeds the longest ZIP list
Workers == 1..Min(SP2_THREAD_COUNT, MaxZips)

StateAbbrs == {"AK", "AL"}

\* a string is the sequence of its characters; " " is the only whitespace used
IsSpace(c) == c = " "

RECURSIVE LStrip(_)
LStrip(s) == IF s # <<>> /\ IsSpace(Head(s)) THEN LStrip(Tail(s)) ELSE s

RECURSIVE RStrip(_)
RStrip(s) ==
  IF s # <<>> /\ IsSpace(s[Len(s)]) THEN RStrip(SubSeq(s, 1, Len(s) - 1)) ELSE s

Strip(s) == RStrip(LStrip(s))

\* the ZIP strings a JSON file may hold: the padded "1 " and the blank " "
ZipStrings == { <<"1", " ">>, <<" ">> }

RECURSIVE SeqsUpTo(_, _)
SeqsUpTo(S, n) ==
  IF n = 0 THEN { <<>> }
  ELSE LET shorter == SeqsUpTo(S, n - 1)
       IN  shorter \cup { Append(s, x) : s \in shorter, x \in S }

ZipLists == SeqsUpTo(ZipStrings, MaxZips)

\* the dictionaries json.load may return: no key, one state key, two keys
JsonDicts ==
  { <<>> } \cup { (s :> l) : s \in StateAbbrs, l \in ZipLists }
           \cup { [s \in StateAbbrs |-> << <<"1", " ">> >>] }

Entries(zips) == [i \in 1..Len(zips) |-> [id |-> i, zip |-> zips[i]]]

NoEntry == [id |-> 0, zip |-> <<>>]

Local0 == [pc |-> "idle", zip_code |-> NoEntry, attempt |-> 0, driver |-> FALSE,
           e |-> "", batch |-> <<>>, todo |-> 0, zi |-> 0, batch_data |-> <<>>,
           dealers |-> 0]

RECURSIVE SumRecords(_)
SumRecords(rows) ==
  IF rows = <<>> THEN 0 ELSE Head(rows).records + SumRecords(Tail(rows))

RowsOf(id) == { i \in 1..Len(report_list) : report_list[i].entry = id }

\* ------------------------------------------------------ shared pieces
\* mutation: the test for the missing input never fires
InputMissingNever(present) == FALSE

\* `if not os.path.isfile(ZIP_FILE)` / `if not os.path.isdir(ZIP_FOLDER)`
InputMissing(present) == ~present

\* mutation: range(1, MAX_RETRIES + 2)
InRangeOneMore(a) == a <= MAX_RETRIES + 1

\* range(1, MAX_RETRIES + 1)
InRange(a) == a <= MAX_RETRIES

\* mutation: the except block appends its row on every failure
IsFinalAttemptAlways(a) == TRUE

\* `if attempt == MAX_RETRIES` of the except block
IsFinalAttempt(a) == a = MAX_RETRIES

\* mutation: the entry is read but left on the queue
QueueRestPeek(q) == q

\* Queue.get / Queue.get_nowait: what is left on the queue
QueueRest(q) == Tail(q)

\* mutation: the block is entered without the lock being taken into account
LockFreeIgnored == TRUE

\* `with progress_lock:` can be entered
LockFree == progress_lock = 0

\* scraper_single_page2, get_driver: "--headless=new" is always added
SP2Headless == TRUE

\* car.com_updated, line 23
HEADLESS == TRUE

\* car.com_updated, `def get_driver(headless: bool = False)`: the parameter's
\* default
HeadlessDefault == FALSE

\* car.com_updated, get_driver lines 30-32: the browser is headless exactly when
\* the argument is true
get_driver(headless) == headless

\* scrape_worker line 138 calls get_driver() with no argument
WorkerArgument == HeadlessDefault

\* mutation: only a dictionary without any key is refused
BadFormatEmptyOnly(zip_json) == Cardinality(DOMAIN zip_json) = 0

\* `if len(zip_json) != 1`
BadFormat(zip_json) == Cardinality(DOMAIN zip_json) # 1

\* the report rows; time_sec is a measured time, kept as 0, and entry is the
\* queue entry a row was written for (not a key of the dictionary)
SuccessRow(e, n, file, a) ==
  [zip |-> e.zip, records |-> n, file |-> file, time_sec |-> 0,
   status |-> <<"success">>, attempts |-> a, entry |-> e.id]

FailedRow(e, msg, a) ==
  [zip |-> e.zip, records |-> 0, file |-> <<"ERROR">>, time_sec |-> 0,
   status |-> <<"failed", msg>>, attempts |-> a, entry |-> e.id]

\* mutation: the TOTAL row counts the rows instead of summing their records
TotalRowCount(file) ==
  [zip |-> <<"TOTAL">>, records |-> Len(report_list), file |-> file,
   time_sec |-> 0, status |-> <<"completed">>, attempts |-> "-", entry |-> 0]

TotalRow(file) ==
  [zip |-> <<"TOTAL">>, records |-> SumRecords(report_list), file |-> file,
   time_sec |-> 0, status |-> <<"completed">>, attempts |-> "-", entry |-> 0]

\* fieldnames of the report's csv.DictWriter
ReportFields == <<"zip", "records", "file", "time_sec", "status", "attempts">>

\* the report file: writeheader(), the rows of report_list, the TOTAL row
ReportFile(file) ==
  [state |-> state_abbr, header |-> ReportFields,
   rows |-> Append(report_list, TotalRow(file))]

ZipCsvPath(st, zip) == <<"USA", st, st, "_">> \o zip \o <<".csv">>

DealersCsvPath(st) == <<"USA", st, st, "_dealers.csv">>

Ended(w) == th[w].pc \in {"idle", "done", "dead_start", "dead_empty"}

\* scrape_zip has returned: its locals are gone, the worker is back at its loop
Returned == [Local0 EXCEPT !.pc = "check"]

\* scrape_state before its first statement
SspInit ==
  /\ ssp_pc = "init"
  /\ init_attempt = 0
  /\ driver_doc = <<>>
  /\ page = 0
  /\ futures = <<>>
  /\ page_dealers = <<>>
  /\ local_dealers = <<>>
  /\ record_count = 0
  /\ pbar = 0
  /\ state_files = <<>>
  /\ zip_file = [made |-> FALSE, files |-> {}]

\* the ZIP-queue scrapers before main's first statement
ZcInit ==
  /\ zc_pc = "input"
  /\ choice = <<>>
  /\ zip_data = <<>>
  /\ zc_i = 0
  /\ json_files = <<>>

\* blackbox before an upload: line 103 stops the script
BbInit ==
  /\ bb_pc = "start"
  /\ uploaded = <<>>
  /\ header_row = 0
  /\ df_raw = [columns |-> <<>>, dtypes |-> <<>>, rows |-> <<>>]
  /\ widgets = <<>>
  /\ apply_btn = FALSE
  /\ df_out = [columns |-> <<>>, dtypes |-> <<>>, rows |-> <<>>]
  /\ changes = <<>>
  /\ steps = <<>>
  /\ warning = FALSE
  /\ exception = FALSE
  /\ download_button = FALSE

\* no file written
NoFile == [header |-> <<>>, data |-> <<>>]

NoOutput == [written |-> {}, merged |-> NoFile, report |-> <<>>,
             duplicates |-> NoFile, final_duplicates |-> 0]

\* the post-processing scripts before their first statement
PostInit ==
  /\ post_pc = "start"
  /\ post_in = <<>>
  /\ post_out = NoOutput
  /\ post_again = NoOutput

\* no range of threads has been evaluated
StartInit ==
  /\ start_n = -1
  /\ alive = 0

QueueInit ==
  /\ run = 1
  /\ input_ok = TRUE
  /\ mainpc = "start"
  /\ files_left = 0
  /\ zip_json_len = -1
  /\ state_abbr = ""
  /\ zip_queue = <<>>
  /\ total_zipcodes = 0
  /\ threads = 0
  /\ th = [w \in Workers |-> Local0]
  /\ progress_lock = 0
  /\ report_list = <<>>
  /\ completed_zipcodes = <<>>
  /\ progress_bar = 0
  /\ all_data = <<>>
  /\ output_file = <<>>
  /\ fs = <<>>
  /\ last_report = <<>>
  /\ reports_written = 0
  /\ csv_written = FALSE
  /\ browsers = FALSE
  /\ shown = FALSE
  /\ queued = <<>>
  /\ taken = <<>>
  /\ fails = <<>>
  /\ opened = 0
  /\ skipped_zips = <<>>
  /\ succeeded = {}

Init ==
  /\ script \in {"sp2", "car"}
  /\ BATCH_SIZE \in (IF script = "car" THEN 1..MaxBatch ELSE {0})
  /\ QueueInit
  /\ SspInit
  /\ ZcInit
  /\ BbInit
  /\ StartInit
  /\ PostInit

mainvars == << files_left, state_abbr, total_zipcodes, threads, output_file,
               last_report, reports_written, queued, skipped_zips >>
sharedvars == << report_list, completed_zipcodes, progress_bar, all_data >>
fixedvars == << script, BATCH_SIZE, othervars, run, input_ok, opened, succeeded, zip_json_len >>

\* mutation: one thread for every ZIP of the queue
ThreadsToStartAll(qsize) == qsize

\* `range(min(THREAD_COUNT, zip_queue.qsize()))`: the threads main starts
ThreadsToStart(qsize) == Min(THREAD_COUNT, qsize)

\* the main thread leaves through exit() or an uncaught exception
MainEnds(how) ==
  /\ mainpc' = how
  /\ UNCHANGED << script, BATCH_SIZE, othervars, run, opened, succeeded, mainvars, sharedvars,
                  zip_queue, th,
                  progress_lock, fs, csv_written, browsers, shown, taken, fails >>

\* =============================================== scraper_single_page2
\* lines 150-170: queue every entry of the list, start the workers
SP2Load(zip_json) ==
  IF BadFormat(zip_json)
  THEN /\ zip_json_len' = Cardinality(DOMAIN zip_json)
       /\ MainEnds("exit_format")
  ELSE LET st == CHOOSE k \in DOMAIN zip_json : TRUE
           es == Entries(zip_json[st])
           n  == ThreadsToStart(Len(es))
       IN  /\ zip_json_len' = Cardinality(DOMAIN zip_json)
           /\ state_abbr' = st
           /\ zip_queue' = es
           /\ queued' = es
           /\ taken' = [i \in 1..Len(es) |-> 0]
           /\ fails' = [i \in 1..Len(es) |-> 0]
           /\ total_zipcodes' = Len(es)
           /\ completed_zipcodes' = <<>>
           /\ progress_lock' = 0
           /\ report_list' = <<>>
           /\ progress_bar' = 0
           /\ threads' = n
           /\ th' = [w \in Workers |->
                       IF w <= n THEN [Local0 EXCEPT !.pc = "check"] ELSE Local0]
           /\ mainpc' = "join"
           /\ UNCHANGED << script, BATCH_SIZE, othervars, run, opened, succeeded, skipped_zips,
                           files_left, all_data, output_file, fs, last_report,
                           reports_written, csv_written, browsers, shown >>

SP2Start ==
  /\ script = "sp2"
  /\ mainpc = "start"
  /\ \E present \in BOOLEAN :
       /\ input_ok' = present
       /\ IF InputMissing(present)
          THEN MainEnds("exit_missing") /\ UNCHANGED zip_json_len
          ELSE IF ~present THEN MainEnds("crashed") /\ UNCHANGED zip_json_len
          ELSE \E zip_json \in JsonDicts : SP2Load(zip_json)

\* scrape_worker: `while not queue.empty()`
SP2Check(w) ==
  /\ script = "sp2"
  /\ th[w].pc = "check"
  /\ th' = [th EXCEPT ![w].pc = IF zip_queue = <<>> THEN "done" ELSE "get"]
  /\ UNCHANGED << fixedvars, mainpc, mainvars, sharedvars, zip_queue,
                  progress_lock, fs, csv_written, browsers, shown, taken, fails >>

\* scrape_worker: the blocking queue.get(), strip, and the blank entry that is
\* passed over (task_done, back to the loop test)
SP2Get(w) ==
  /\ script = "sp2"
  /\ th[w].pc = "get"
  /\ zip_queue # <<>>
  /\ LET e == Head(zip_queue)
         z == Strip(e.zip)
     IN  /\ zip_queue' = QueueRest(zip_queue)
         /\ taken' = [taken EXCEPT ![e.id] = @ + 1]
         /\ th' = [th EXCEPT ![w] =
                     IF z = <<>>
                     THEN Returned
                     ELSE [@ EXCEPT !.pc = "attempt", !.attempt = 1,
                                    !.zip_code = [e EXCEPT !.zip = z]]]
  /\ UNCHANGED << fixedvars, mainpc, mainvars, sharedvars, progress_lock, fs,
                  csv_written, browsers, shown, fails >>

ZipCsvHeader == <<"Business Name", "Phone(s)", "Address">>

\* mutation: the file is left with its header only
ZipCsvHeaderOnly(n) == << ZipCsvHeader >>

\* lines 79-82: the file of one ZIP, the header and one row per dealer card
ZipCsv(n) == << ZipCsvHeader >> \o [j \in 1..n |-> <<j>>]

\* mutation: finally does not quit the browser of a failed attempt
AfterFailureLeak(w, msg, drv) ==
  LET a == th[w].attempt
  IN  IF IsFinalAttempt(a)
      THEN [th[w] EXCEPT !.pc = "lock_fail", !.driver = drv, !.e = msg]
      ELSE IF InRange(a + 1)
           THEN [th[w] EXCEPT !.attempt = a + 1, !.driver = drv]
           ELSE Returned

\* what follows a failed attempt of worker w that raised msg (the except block,
\* then finally, then the for loop): drv tells whether the browser had started
AfterFailure(w, msg, drv) ==
  LET a == th[w].attempt
  IN  IF IsFinalAttempt(a)
      THEN [th[w] EXCEPT !.pc = "lock_fail", !.driver = drv, !.e = msg]
      ELSE IF InRange(a + 1)
           THEN [th[w] EXCEPT !.attempt = a + 1, !.driver = FALSE]
           ELSE Returned

\* scrape_zip: one pass of the try block, lines 45-83
SP2Attempt(w) ==
  /\ script = "sp2"
  /\ th[w].pc = "attempt"
  /\ \/ \* get_driver() raises
        /\ th' = [th EXCEPT ![w] = AfterFailure(w, "start", FALSE)]
        /\ fails' = [fails EXCEPT ![th[w].zip_code.id] = @ + 1]
        /\ UNCHANGED << fs, csv_written, browsers, shown >>
     \/ \* the page load or the card lookup raises
        /\ th' = [th EXCEPT ![w] = AfterFailure(w, "load", TRUE)]
        /\ fails' = [fails EXCEPT ![th[w].zip_code.id] = @ + 1]
        /\ browsers' = TRUE
        /\ shown' = (shown \/ ~SP2Headless)
        /\ UNCHANGED << fs, csv_written >>
     \/ \* the page holds n dealer cards and the CSV is written
        \E n \in 0..1 :
          /\ th' = [th EXCEPT ![w] = [@ EXCEPT !.pc = "lock_ok", !.driver = TRUE,
                                               !.dealers = n]]
          /\ fs' = (ZipCsvPath(state_abbr, th[w].zip_code.zip) :> ZipCsv(n)) @@ fs
          /\ csv_written' = TRUE
          /\ browsers' = TRUE
          /\ shown' = (shown \/ ~SP2Headless)
          /\ UNCHANGED fails
  /\ UNCHANGED << fixedvars, mainpc, mainvars, sharedvars, zip_queue,
                  progress_lock, taken >>

\* `with progress_lock:` is entered (both scripts)
Acquire(w) ==
  /\ th[w].pc \in {"lock_ok", "lock_fail", "lock_ext"}
  /\ LockFree
  /\ progress_lock' = w
  /\ th' = [th EXCEPT ![w].pc = CASE th[w].pc = "lock_ok" -> "cs_ok"
                                  [] th[w].pc = "lock_fail" -> "cs_fail"
                                  [] OTHER -> "cs_ext"]
  /\ UNCHANGED << fixedvars, mainpc, mainvars, sharedvars, zip_queue, fs,
                  csv_written, browsers, shown, taken, fails >>

\* scrape_zip lines 86-99: the success row, then return through finally
SP2CsOk(w) ==
  /\ script = "sp2"
  /\ th[w].pc = "cs_ok"
  /\ completed_zipcodes' = Append(completed_zipcodes, th[w].zip_code.zip)
  /\ report_list' = Append(report_list,
        SuccessRow(th[w].zip_code, th[w].dealers,
                   ZipCsvPath(state_abbr, th[w].zip_code.zip), th[w].attempt))
  /\ progress_bar' = progress_bar + 1
  /\ progress_lock' = 0
  /\ th' = [th EXCEPT ![w] = Returned]
  /\ UNCHANGED << fixedvars, mainpc, mainvars, all_data, zip_queue, fs,
                  csv_written, browsers, shown, taken, fails >>

\* scrape_zip lines 103-120: the failed row, finally, and the for loop
SP2CsFail(w) ==
  /\ script = "sp2"
  /\ th[w].pc = "cs_fail"
  /\ report_list' = Append(report_list,
        FailedRow(th[w].zip_code, th[w].e, th[w].attempt))
  /\ progress_bar' = progress_bar + 1
  /\ progress_lock' = 0
  /\ th' = [th EXCEPT ![w] =
              IF InRange(th[w].attempt + 1)
              THEN [@ EXCEPT !.pc = "attempt", !.attempt = @ + 1, !.driver = FALSE,
                             !.e = ""]
              ELSE Returned]
  /\ UNCHANGED << fixedvars, mainpc, mainvars, completed_zipcodes, all_data,
                  zip_queue, fs, csv_written, browsers, shown, taken, fails >>

\* lines 172-194: join every thread, then write the report
SP2Join ==
  /\ script = "sp2"
  /\ mainpc = "join"
  /\ \A w \in Workers : Ended(w)
  /\ last_report' = ReportFile(<<"-">>)
  /\ reports_written' = reports_written + 1
  /\ mainpc' = "done"
  /\ UNCHANGED << fixedvars, files_left, state_abbr, total_zipcodes, threads,
                  output_file, queued, skipped_zips, sharedvars, zip_queue, th,
                  progress_lock, fs, csv_written, browsers, shown, taken, fails >>

SP2Next ==
  \/ SP2Start
  \/ SP2Join
  \/ \E w \in Workers :
       SP2Check(w) \/ SP2Get(w) \/ SP2Attempt(w) \/ Acquire(w) \/ SP2CsOk(w)
       \/ SP2CsFail(w)

\* ===================================================== car.com_updated
\* mutation: the first data row is passed over together with the header
get_processed_zips_from3(st) ==
  LET p == DealersCsvPath(st)
  IN  IF p \notin DOMAIN fs THEN {}
      ELSE { fs[p][i][1] : i \in { k \in 3..Len(fs[p]) : Len(fs[p][k]) > 0 } }

\* get_processed_zips: the first column of every data row of the state's CSV
get_processed_zips(st) ==
  LET p == DealersCsvPath(st)
  IN  IF p \notin DOMAIN fs THEN {}
      ELSE { fs[p][i][1] : i \in { k \in 2..Len(fs[p]) : Len(fs[p][k]) > 0 } }

\* mutation: the entry is tested and queued as the list holds it
QueueFormRaw(z) == z

\* line 182, `zip_code = z.strip()`
QueueForm(z) == Strip(z)

\* line 183, `if zip_code in processed_zips`
IsProcessed(zip, processed_zips) == zip \in processed_zips

\* the dealer cards on the page of a ZIP once the wait of line 76 has passed: at
\* least one; the page of "1" holds two cards and that of "" one card
CarCards(zip) == IF zip = <<>> THEN {1} ELSE {2}

CsvHeader == << <<"Z", "i", "p">>, "Business Name", "Phone(s)", "Address" >>

\* lines 163-210: the next JSON file, its queue and its workers
CarLoad(zip_json) ==
  IF BadFormat(zip_json)
  THEN /\ zip_json_len' = Cardinality(DOMAIN zip_json)
       /\ mainpc' = "loop"
       /\ UNCHANGED << state_abbr, zip_queue, queued, taken, fails, skipped_zips,
                       total_zipcodes, sharedvars, progress_lock, threads, th >>
  ELSE LET st == CHOOSE k \in DOMAIN zip_json : TRUE
           processed_zips == get_processed_zips(st)
           stripped == [i \in 1..Len(zip_json[st]) |->
                          [id |-> i, zip |-> QueueForm(zip_json[st][i])]]
           es == SelectSeq(stripped,
                           LAMBDA x : ~IsProcessed(x.zip, processed_zips))
           n  == ThreadsToStart(Len(es))
       IN  /\ zip_json_len' = Cardinality(DOMAIN zip_json)
           /\ state_abbr' = st
           /\ zip_queue' = es
           /\ queued' = es
           /\ skipped_zips' = SelectSeq([i \in 1..Len(stripped) |-> stripped[i].zip],
                                        LAMBDA z : IsProcessed(z, processed_zips))
           /\ taken' = [i \in 1..Len(zip_json[st]) |-> 0]
           /\ fails' = [i \in 1..Len(zip_json[st]) |-> 0]
           /\ total_zipcodes' = Len(es)
           /\ IF Len(es) = 0
              THEN /\ mainpc' = "loop"
                   /\ UNCHANGED << sharedvars, progress_lock, threads, th >>
              ELSE /\ completed_zipcodes' = <<>>
                   /\ progress_lock' = 0
                   /\ report_list' = <<>>
                   /\ all_data' = <<>>
                   /\ progress_bar' = 0
                   /\ threads' = n
                   /\ th' = [w \in Workers |->
                               IF w <= n THEN [Local0 EXCEPT !.pc = "start"]
                               ELSE Local0]
                   /\ mainpc' = "join"

\* lines 157-161: the folder test and the listing of its JSON files
CarStart ==
  /\ script = "car"
  /\ mainpc = "start"
  /\ \E present \in BOOLEAN :
       /\ input_ok' = present
       /\ IF InputMissing(present)
          THEN MainEnds("exit_missing") /\ UNCHANGED zip_json_len
          ELSE IF ~present THEN MainEnds("crashed") /\ UNCHANGED zip_json_len
          ELSE /\ files_left' \in 0..(MaxFiles - opened)
               /\ mainpc' = "loop"
               /\ UNCHANGED << script, BATCH_SIZE, othervars, run, opened, succeeded, skipped_zips,
                               zip_json_len, state_abbr, total_zipcodes, threads,
                               output_file, last_report, reports_written,
                               queued, sharedvars, zip_queue, th, progress_lock,
                               fs, csv_written, browsers, shown, taken, fails >>

\* `for json_file in json_files:` one pass, or the end of the loop
CarNextFile ==
  /\ script = "car"
  /\ mainpc = "loop"
  /\ IF files_left = 0
     THEN /\ mainpc' = "done"
          /\ UNCHANGED << files_left, opened, zip_json_len, state_abbr, zip_queue, queued,
                          skipped_zips, taken, fails, total_zipcodes, sharedvars,
                          progress_lock, threads, th >>
     ELSE /\ files_left' = files_left - 1
          /\ opened' = opened + 1
          /\ \E zip_json \in JsonDicts : CarLoad(zip_json)
  /\ last_report' = <<>>
  /\ UNCHANGED << script, BATCH_SIZE, othervars, run, input_ok, succeeded, output_file, fs,
                  reports_written, csv_written, browsers, shown >>

\* scrape_worker line 138: get_driver(), outside the try
CarWStart(w) ==
  /\ script = "car"
  /\ th[w].pc = "start"
  /\ \/ /\ th' = [th EXCEPT ![w] = [@ EXCEPT !.pc = "check", !.driver = TRUE]]
        /\ browsers' = TRUE
        /\ shown' = (shown \/ ~get_driver(WorkerArgument))
     \/ /\ th' = [th EXCEPT ![w].pc = "dead_start"]
        /\ UNCHANGED << browsers, shown >>
  /\ UNCHANGED << fixedvars, mainpc, mainvars, sharedvars, zip_queue,
                  progress_lock, fs, csv_written, taken, fails >>

\* `while not queue.empty()`; the loop's end runs finally: driver.quit()
CarWCheck(w) ==
  /\ script = "car"
  /\ th[w].pc = "check"
  /\ th' = [th EXCEPT ![w] = IF zip_queue = <<>>
                             THEN [Local0 EXCEPT !.pc = "done"]
                             ELSE [@ EXCEPT !.pc = "size"]]
  /\ UNCHANGED << fixedvars, mainpc, mainvars, sharedvars, zip_queue,
                  progress_lock, fs, csv_written, browsers, shown, taken, fails >>

\* `batch = []` and `range(min(BATCH_SIZE, queue.qsize()))`, evaluated once
CarWSize(w) ==
  /\ script = "car"
  /\ th[w].pc = "size"
  /\ LET n == Min(BATCH_SIZE, Len(zip_queue))
     IN  th' = [th EXCEPT ![w] =
                  [@ EXCEPT !.pc = IF n = 0 THEN "check" ELSE "fill",
                            !.todo = n, !.batch = <<>>]]
  /\ UNCHANGED << fixedvars, mainpc, mainvars, sharedvars, zip_queue,
                  progress_lock, fs, csv_written, browsers, shown, taken, fails >>

\* one queue.get_nowait(). On an empty queue it raises queue.Empty; the clause
\* `except Queue.Empty` then looks Empty up on the class Queue, which has no
\* such attribute: AttributeError leaves the loop and the function through
\* finally, and the thread ends with its batch unscraped.
CarWFill(w) ==
  /\ script = "car"
  /\ th[w].pc = "fill"
  /\ IF zip_queue = <<>>
     THEN /\ th' = [th EXCEPT ![w] = [@ EXCEPT !.pc = "dead_empty",
                                               !.driver = FALSE]]
          /\ UNCHANGED << zip_queue, taken >>
     ELSE LET e == Head(zip_queue)
              b == Append(th[w].batch, e)
          IN  /\ zip_queue' = QueueRest(zip_queue)
              /\ taken' = [taken EXCEPT ![e.id] = @ + 1]
              /\ th' = [th EXCEPT ![w] =
                          IF th[w].todo = 1
                          THEN [@ EXCEPT !.pc = "attempt", !.batch = b,
                                         !.todo = 0, !.zi = 1, !.attempt = 1,
                                         !.batch_data = <<>>,
                                         !.zip_code = b[1]]
                          ELSE [@ EXCEPT !.batch = b, !.todo = @ - 1]]
  /\ UNCHANGED << fixedvars, mainpc, mainvars, sharedvars, progress_lock, fs,
                  csv_written, browsers, shown, fails >>

\* scrape_zip_batch: after the row of batch[zi], the next ZIP of the batch or
\* the lock of line 130
NextInBatch(w) ==
  IF th[w].zi < Len(th[w].batch)
  THEN [th[w] EXCEPT !.pc = "attempt", !.zi = @ + 1, !.attempt = 1, !.e = "",
                     !.dealers = 0, !.zip_code = th[w].batch[th[w].zi + 1]]
  ELSE [th[w] EXCEPT !.pc = "lock_ext", !.zi = 0, !.attempt = 0, !.e = "",
                     !.dealers = 0, !.zip_code = NoEntry]

\* scrape_zip_batch lines 73-98: one pass of the try block
CarWAttempt(w) ==
  /\ script = "car"
  /\ th[w].pc = "attempt"
  /\ \/ \* driver.get, the wait or find_elements raises
        /\ fails' = [fails EXCEPT ![th[w].zip_code.id] = @ + 1]
        /\ th' = [th EXCEPT ![w] =
              LET a == th[w].attempt
              IN  IF IsFinalAttempt(a)
                  THEN [@ EXCEPT !.pc = "lock_fail", !.e = "load"]
                  ELSE IF InRange(a + 1)
                       THEN [@ EXCEPT !.attempt = a + 1]
                       ELSE NextInBatch(w)]
     \/ \* the page shows n dealer cards
        \E n \in CarCards(th[w].zip_code.zip) :
          /\ th' = [th EXCEPT ![w] =
                [@ EXCEPT !.pc = "lock_ok", !.dealers = n,
                          !.batch_data = @ \o [j \in 1..n |->
                                                 <<th[w].zip_code.zip, j>>]]]
          /\ UNCHANGED fails
  /\ UNCHANGED << fixedvars, mainpc, mainvars, sharedvars, zip_queue,
                  progress_lock, fs, csv_written, browsers, shown, taken >>

\* lines 100-113: the success row, then break
CarCsOk(w) ==
  /\ script = "car"
  /\ th[w].pc = "cs_ok"
  /\ completed_zipcodes' = Append(completed_zipcodes, th[w].zip_code.zip)
  /\ report_list' = Append(report_list,
        SuccessRow(th[w].zip_code, th[w].dealers,
                   DealersCsvPath(state_abbr), th[w].attempt))
  /\ progress_bar' = progress_bar + 1
  /\ progress_lock' = 0
  /\ th' = [th EXCEPT ![w] = NextInBatch(w)]
  /\ succeeded' = succeeded \cup { <<run, state_abbr, th[w].zip_code.zip>> }
  /\ UNCHANGED << script, BATCH_SIZE, othervars, run, input_ok, opened, zip_json_len, mainpc,
                  mainvars, all_data,
                  zip_queue, fs, csv_written, browsers, shown, taken, fails >>

\* lines 116-128: the failed row, then the for loop
CarCsFail(w) ==
  /\ script = "car"
  /\ th[w].pc = "cs_fail"
  /\ report_list' = Append(report_list,
        FailedRow(th[w].zip_code, th[w].e, th[w].attempt))
  /\ progress_bar' = progress_bar + 1
  /\ progress_lock' = 0
  /\ th' = [th EXCEPT ![w] =
              IF InRange(th[w].attempt + 1)
              THEN [@ EXCEPT !.pc = "attempt", !.attempt = @ + 1, !.e = ""]
              ELSE NextInBatch(w)]
  /\ UNCHANGED << fixedvars, mainpc, mainvars, completed_zipcodes, all_data,
                  zip_queue, fs, csv_written, browsers, shown, taken, fails >>

\* mutation: the header is written on every append
NeedsHeaderAlways(content) == TRUE

\* line 225: the header is written when the file opened for append is empty
NeedsHeader(content) == Len(content) = 0

\* lines 218-227: what the state's CSV holds after the append
Appended(content, rows) ==
  content \o (IF NeedsHeader(content) THEN << CsvHeader >> ELSE <<>>) \o rows

\* mutation: the batch is also appended to the state's CSV as soon as it is done
CarCsExtendFlush(w) ==
  /\ script = "car"
  /\ th[w].pc = "cs_ext"
  /\ all_data' = all_data \o th[w].batch_data
  /\ LET p == DealersCsvPath(state_abbr)
         old == IF p \in DOMAIN fs THEN fs[p] ELSE <<>>
     IN  fs' = (p :> Appended(old, th[w].batch_data)) @@ fs
  /\ progress_lock' = 0
  /\ th' = [th EXCEPT ![w] = [Local0 EXCEPT !.pc = "check", !.driver = TRUE]]
  /\ UNCHANGED << fixedvars, mainpc, mainvars, report_list, completed_zipcodes,
                  progress_bar, zip_queue, csv_written, browsers, shown, taken,
                  fails >>

\* mutation: scrape_zip_batch returns without extending all_data
CarCsExtendDrop(w) ==
  /\ script = "car"
  /\ th[w].pc = "cs_ext"
  /\ progress_lock' = 0
  /\ th' = [th EXCEPT ![w] = [Local0 EXCEPT !.pc = "check", !.driver = TRUE]]
  /\ UNCHANGED << fixedvars, mainpc, mainvars, sharedvars, zip_queue, fs,
                  csv_written, browsers, shown, taken, fails >>

\* lines 130-132: all_data.extend(batch_data), return to the worker's loop
CarCsExtend(w) ==
  /\ script = "car"
  /\ th[w].pc = "cs_ext"
  /\ all_data' = all_data \o th[w].batch_data
  /\ progress_lock' = 0
  /\ th' = [th EXCEPT ![w] = [Local0 EXCEPT !.pc = "check", !.driver = TRUE]]
  /\ UNCHANGED << fixedvars, mainpc, mainvars, report_list, completed_zipcodes,
                  progress_bar, zip_queue, fs, csv_written, browsers, shown, taken,
                  fails >>

\* lines 212-248: join, the CSV, the report and the closing print, which reads
\* output_file: a global bound only where a CSV was written
CarJoin ==
  /\ script = "car"
  /\ mainpc = "join"
  /\ \A w \in Workers : Ended(w)
  /\ LET p == DealersCsvPath(state_abbr)
         old == IF p \in DOMAIN fs THEN fs[p] ELSE <<>>
     IN  IF all_data # <<>>
         THEN /\ fs' = (p :> Appended(old, all_data)) @@ fs
              /\ csv_written' = TRUE
              /\ output_file' = p
         ELSE UNCHANGED << fs, csv_written, output_file >>
  /\ last_report' = ReportFile(DealersCsvPath(state_abbr))
  /\ reports_written' = reports_written + 1
  /\ mainpc' = IF output_file' = <<>> THEN "crashed" ELSE "loop"
  \* the threads are gone, and what follows is overwritten before it is read
  /\ th' = [w \in Workers |-> Local0]
  /\ zip_queue' = <<>>
  /\ queued' = <<>>
  /\ taken' = <<>>
  /\ fails' = <<>>
  /\ threads' = 0
  /\ report_list' = <<>>
  /\ completed_zipcodes' = <<>>
  /\ progress_bar' = 0
  /\ all_data' = <<>>
  /\ skipped_zips' = <<>>
  /\ UNCHANGED << fixedvars, files_left, state_abbr, total_zipcodes,
                  progress_lock, browsers, shown >>

\* the script is started again: a new process on the same disk
NewRun ==
  /\ script = "car"
  /\ mainpc \in {"done", "crashed", "exit_missing"}
  /\ run < MaxRuns
  /\ opened < MaxFiles
  /\ run' = run + 1
  /\ input_ok' = TRUE
  /\ mainpc' = "start"
  /\ files_left' = 0
  /\ zip_json_len' = -1
  /\ state_abbr' = ""
  /\ zip_queue' = <<>>
  /\ total_zipcodes' = 0
  /\ threads' = 0
  /\ th' = [w \in Workers |-> Local0]
  /\ progress_lock' = 0
  /\ report_list' = <<>>
  /\ completed_zipcodes' = <<>>
  /\ progress_bar' = 0
  /\ all_data' = <<>>
  /\ output_file' = <<>>
  /\ last_report' = <<>>
  /\ reports_written' = 0
  /\ csv_written' = FALSE
  /\ browsers' = FALSE
  /\ shown' = FALSE
  /\ queued' = <<>>
  /\ taken' = <<>>
  /\ fails' = <<>>
  /\ skipped_zips' = <<>>
  /\ UNCHANGED << script, BATCH_SIZE, othervars, opened, succeeded, fs >>

CarNext ==
  \/ CarStart
  \/ CarNextFile
  \/ CarJoin
  \/ NewRun
  \/ \E w \in Workers :
       CarWStart(w) \/ CarWCheck(w) \/ CarWSize(w) \/ CarWFill(w)
       \/ CarWAttempt(w) \/ Acquire(w) \/ CarCsOk(w) \/ CarCsFail(w)
       \/ CarCsExtend(w)

Next == SP2Next \/ CarNext

Spec == Init /\ [][Next]_vars

\* ================================================= scraper_single_page
\* the variables of the ZIP-queue scrapers, which scrape_state leaves alone
queuevars == << run, input_ok, mainpc, zip_json_len, zip_queue, th,
               progress_lock, fs, csv_written, browsers, shown, taken, fails,
               opened, succeeded, mainvars, sharedvars >>

\* what scrape_state leaves alone
sspfixed == << script, BATCH_SIZE, queuevars, zcvars, bbvars, startvars, postvars >>

\* the listing page `?page=p&state=...` and the inventory page of its card i
ListDoc(p) == <<"list", p>>
InvDoc(p, i) == <<"inv", p, i>>

\* the dealer cards a listing page may show: for each, whether it has an
\* inventory link
CardLists == SeqsUpTo(BOOLEAN, MaxCards)

\* scrape_dealer returned None
None == [page |-> 0, card |-> 0, inv |-> <<>>]

\* lines 144-153: the record of card i of page p; inv is the document its
\* e-mail and contact name were read from, <<>> when there was none
dealer_data(p, i, doc) == [page |-> p, card |-> i, inv |-> doc]

\* save_state_dealers: nothing for an empty list, else df.to_csv writes (or
\* overwrites) <state>-<start>to<end>.csv
save_state_dealers(files, dealers, start_index, end_index) ==
  IF dealers = <<>> THEN files
  ELSE (<<start_index, end_index>> :> dealers) @@ files

\* a scrape_dealer call that holds a pool thread inside scrape_inventory_page
Running(i) == futures[i].pc \in {"load", "read"}

\* mutation: range(max_retries + 1)
SspInitializeOneMore ==
  /\ script = "ssp"
  /\ ssp_pc = "init"
  /\ \/ /\ ssp_pc' = "page"
        /\ page' = 1
        /\ UNCHANGED init_attempt
     \/ /\ init_attempt' = init_attempt + 1
        /\ ssp_pc' = IF init_attempt + 1 < DRIVER_RETRIES + 1 THEN "init"
                     ELSE "returned"
        /\ UNCHANGED page
  /\ UNCHANGED << sspfixed, zip_file, driver_doc, futures,
                  page_dealers, local_dealers, record_count, pbar, state_files >>

\* lines 162-165 with initialize_driver: up to DRIVER_RETRIES starts, then None
\* and `return []`
SspInitialize ==
  /\ script = "ssp"
  /\ ssp_pc = "init"
  /\ \/ /\ ssp_pc' = "page"
        /\ page' = 1
        /\ UNCHANGED init_attempt
     \/ /\ init_attempt' = init_attempt + 1
        /\ ssp_pc' = IF init_attempt + 1 < DRIVER_RETRIES THEN "init" ELSE "returned"
        /\ UNCHANGED page
  /\ UNCHANGED << sspfixed, zip_file, driver_doc, futures,
                  page_dealers, local_dealers, record_count, pbar, state_files >>

\* mutation: a page that fails to load ends the loop over the pages
SspPageAbort ==
  /\ script = "ssp"
  /\ ssp_pc = "page"
  /\ IF page > MaxPages
     THEN /\ ssp_pc' = "final"
          /\ UNCHANGED << page, driver_doc, futures, page_dealers, pbar >>
     ELSE \/ /\ ssp_pc' = "final"
             /\ UNCHANGED << page, pbar, driver_doc, futures, page_dealers >>
          \/ \E dealer_cards \in CardLists :
               /\ driver_doc' = ListDoc(page)
               /\ IF dealer_cards = <<>>
                  THEN /\ pbar' = pbar + 1
                       /\ page' = page + 1
                       /\ UNCHANGED << ssp_pc, futures, page_dealers >>
                  ELSE /\ futures' = [i \in 1..Len(dealer_cards) |->
                                        [pc |-> "queued", attempt |-> 0,
                                         inventory |-> dealer_cards[i],
                                         result |-> None, collected |-> FALSE]]
                       /\ page_dealers' = <<>>
                       /\ ssp_pc' = "cards"
                       /\ UNCHANGED << page, pbar >>
  /\ UNCHANGED << sspfixed, zip_file, init_attempt, local_dealers,
                  record_count, state_files >>

\* lines 171-189 and 205-209: the next page of the range is loaded and its
\* cards are handed to the pool, or the load fails, or the range is exhausted
SspPage ==
  /\ script = "ssp"
  /\ ssp_pc = "page"
  /\ IF page > MaxPages
     THEN /\ ssp_pc' = "final"
          /\ UNCHANGED << page, driver_doc, futures, page_dealers, pbar >>
     ELSE \/ /\ pbar' = pbar + 1
             /\ page' = page + 1
             /\ UNCHANGED << ssp_pc, driver_doc, futures, page_dealers >>
          \/ \E dealer_cards \in CardLists :
               /\ driver_doc' = ListDoc(page)
               /\ IF dealer_cards = <<>>
                  THEN /\ pbar' = pbar + 1
                       /\ page' = page + 1
                       /\ UNCHANGED << ssp_pc, futures, page_dealers >>
                  ELSE /\ futures' = [i \in 1..Len(dealer_cards) |->
                                        [pc |-> "queued", attempt |-> 0,
                                         inventory |-> dealer_cards[i],
                                         result |-> None, collected |-> FALSE]]
                       /\ page_dealers' = <<>>
                       /\ ssp_pc' = "cards"
                       /\ UNCHANGED << page, pbar >>
  /\ UNCHANGED << sspfixed, zip_file, init_attempt, local_dealers,
                  record_count, state_files >>

\* scrape_dealer lines 115-126 on a pool thread: the card is parsed; it raises
\* (None), has no inventory link (the record), or has one
SspDealerStart(i) ==
  /\ script = "ssp"
  /\ ssp_pc = "cards"
  /\ i \in DOMAIN futures
  /\ futures[i].pc = "queued"
  /\ Cardinality({ j \in DOMAIN futures : Running(j) }) < DEALER_WORKERS
  /\ \/ futures' = [futures EXCEPT ![i].pc = "done"]
     \/ /\ ~futures[i].inventory
        /\ futures' = [futures EXCEPT ![i].pc = "done",
                                      ![i].result = dealer_data(page, i, <<>>)]
     \/ /\ futures[i].inventory
        /\ futures' = [futures EXCEPT ![i].pc = "load"]
  /\ UNCHANGED << sspfixed, zip_file, ssp_pc, init_attempt, driver_doc,
                  page, page_dealers, local_dealers, record_count, pbar,
                  state_files >>

\* scrape_inventory_page lines 107-111: the attempt failed; the next one, or
\* None after the last, with which scrape_dealer returns the record all the same
InventoryRetry(i) ==
  IF futures[i].attempt + 1 < INVENTORY_RETRIES
  THEN [futures EXCEPT ![i].pc = "load", ![i].attempt = @ + 1]
  ELSE [futures EXCEPT ![i].pc = "done",
                       ![i].result = dealer_data(page, i, <<>>)]

\* scrape_inventory_page line 103: driver.get(inventory_url) on the browser of
\* the state
SspInventoryGet(i) ==
  /\ script = "ssp"
  /\ i \in DOMAIN futures
  /\ futures[i].pc = "load"
  /\ \/ /\ driver_doc' = InvDoc(page, i)
        /\ futures' = [futures EXCEPT ![i].pc = "read"]
     \/ /\ futures' = InventoryRetry(i)
        /\ UNCHANGED driver_doc
  /\ UNCHANGED << sspfixed, zip_file, ssp_pc, init_attempt, page,
                  page_dealers, local_dealers, record_count, pbar, state_files >>

\* scrape_inventory_page lines 104-106 and scrape_dealer lines 127-155: the
\* wait and driver.page_source read the document the browser holds now
SspInventoryRead(i) ==
  /\ script = "ssp"
  /\ i \in DOMAIN futures
  /\ futures[i].pc = "read"
  /\ \/ futures' = [futures EXCEPT ![i].pc = "done",
                                   ![i].result = dealer_data(page, i, driver_doc)]
     \/ futures' = InventoryRetry(i)
  /\ UNCHANGED << sspfixed, zip_file, ssp_pc, init_attempt, driver_doc,
                  page, page_dealers, local_dealers, record_count, pbar,
                  state_files >>

\* lines 190-195: as_completed yields a finished future
SspCollect(i) ==
  /\ script = "ssp"
  /\ ssp_pc = "cards"
  /\ i \in DOMAIN futures
  /\ futures[i].pc = "done"
  /\ ~futures[i].collected
  /\ futures' = [futures EXCEPT ![i].collected = TRUE]
  /\ IF futures[i].result # None
     THEN /\ page_dealers' = Append(page_dealers, futures[i].result)
          /\ local_dealers' = Append(local_dealers, futures[i].result)
          /\ record_count' = record_count + 1
     ELSE UNCHANGED << page_dealers, local_dealers, record_count >>
  /\ UNCHANGED << sspfixed, zip_file, ssp_pc, init_attempt, driver_doc,
                  page, pbar, state_files >>

\* lines 197-203: the page's dealers are saved under their index range
SspSavePage ==
  /\ script = "ssp"
  /\ ssp_pc = "cards"
  /\ \A i \in DOMAIN futures : futures[i].collected
  /\ state_files' =
       IF page_dealers # <<>>
       THEN save_state_dealers(state_files, page_dealers,
                               record_count - Len(page_dealers) + 1, record_count)
       ELSE state_files
  /\ pbar' = pbar + 1
  /\ page' = page + 1
  /\ futures' = <<>>
  /\ page_dealers' = <<>>
  /\ ssp_pc' = "page"
  /\ UNCHANGED << sspfixed, zip_file, init_attempt, driver_doc,
                  local_dealers, record_count >>

\* zip_state_files: <state>.zip holds the CSV files of the state's folder
zip_state_files(files) == [made |-> TRUE, files |-> DOMAIN files]

\* lines 211-224: the remainder is saved, the folder zipped (unless ZipFile
\* raises, which line 70 catches), the browser quit
SspFinal ==
  /\ script = "ssp"
  /\ ssp_pc = "final"
  /\ LET n == Len(local_dealers)
         start_index == (n \div REMAINDER) * REMAINDER + 1
     IN  state_files' =
           IF n > 0 /\ n % REMAINDER # 0
           THEN save_state_dealers(state_files,
                                   SubSeq(local_dealers, start_index, n),
                                   start_index, n)
           ELSE state_files
  /\ \E made \in BOOLEAN :
       zip_file' = IF made THEN zip_state_files(state_files') ELSE zip_file
  /\ driver_doc' = <<>>
  /\ ssp_pc' = "returned"
  /\ UNCHANGED << sspfixed, init_attempt, page, futures,
                  page_dealers, local_dealers, record_count, pbar >>

NextSsp ==
  \/ SspInitialize
  \/ SspPage
  \/ SspSavePage
  \/ SspFinal
  \/ \E i \in 1..MaxCards :
       SspDealerStart(i) \/ SspInventoryGet(i) \/ SspInventoryRead(i)
       \/ SspCollect(i)

InitSsp ==
  /\ script = "ssp"
  /\ BATCH_SIZE = 0
  /\ QueueInit
  /\ SspInit
  /\ ZcInit
  /\ BbInit
  /\ StartInit
  /\ PostInit

SpecSsp == InitSsp /\ [][NextSsp]_vars

\* ================================================= zipcode
\* what zipcode's main leaves alone
zcfixed == << script, BATCH_SIZE, queuevars, sspvars, bbvars, startvars, postvars >>

LowerCase == <<"a", "b", "c", "d", "e", "f", "g", "h", "i", "j", "k", "l", "m", "n", "o", "p", "q", "r", "s", "t", "u", "v", "w", "x", "y", "z">>
UpperCase == <<"A", "B", "C", "D", "E", "F", "G", "H", "I", "J", "K", "L", "M", "N", "O", "P", "Q", "R", "S", "T", "U", "V", "W", "X", "Y", "Z">>
Digits == <<"0", "1", "2", "3", "4", "5", "6", "7", "8", "9">>

\* str.lower and str.upper, a character at a time
lower(s) ==
  [i \in 1..Len(s) |->
     IF \E j \in 1..26 : UpperCase[j] = s[i]
     THEN LowerCase[CHOOSE j \in 1..26 : UpperCase[j] = s[i]] ELSE s[i]]

upper(s) ==
  [i \in 1..Len(s) |->
     IF \E j \in 1..26 : LowerCase[j] = s[i]
     THEN UpperCase[CHOOSE j \in 1..26 : LowerCase[j] = s[i]] ELSE s[i]]

\* str(i) for i >= 0, and s.zfill(width)
RECURSIVE str(_)
str(i) ==
  IF i < 10 THEN << Digits[i + 1] >>
  ELSE str(i \div 10) \o << Digits[(i % 10) + 1] >>

\* str(i) as it stands, with no padding
zfill_none(s, width) == s

RECURSIVE zfill(_, _)
zfill(s, width) == IF Len(s) >= width THEN s ELSE zfill(<<"0">> \o s, width)

\* the order of digit strings, which is what sorted() compares
RECURSIVE StrLess(_, _)
StrLess(a, b) ==
  IF a = <<>> THEN b # <<>>
  ELSE IF b = <<>> THEN FALSE
  ELSE LET x == CHOOSE i \in 1..10 : Digits[i] = Head(a)
           y == CHOOSE i \in 1..10 : Digits[i] = Head(b)
       IN  IF x = y THEN StrLess(Tail(a), Tail(b)) ELSE x < y

\* sorted(list(S)) for a set S of digit strings
RECURSIVE sorted(_)
sorted(S) ==
  IF S = {} THEN <<>>
  ELSE LET m == CHOOSE x \in S : \A y \in S : x = y \/ StrLess(x, y)
       IN  << m >> \o sorted(S \ {m})

\* the names of the states the model keeps of the 50 (and of the 51 ranges):
\* three whose name is one word and three of the ten whose name is two
Alaska == <<"a", "l", "a", "s", "k", "a">>
Connecticut == <<"c", "o", "n", "n", "e", "c", "t", "i", "c", "u", "t">>
Maine == <<"m", "a", "i", "n", "e">>
Nebraska == <<"n", "e", "b", "r", "a", "s", "k", "a">>
New == <<"n", "e", "w">>
Hampshire == <<"h", "a", "m", "p", "s", "h", "i", "r", "e">>
Jersey == <<"j", "e", "r", "s", "e", "y">>
York == <<"y", "o", "r", "k">>

\* STATE_ABBR, in the order of the literal: names as the site spells them
STATE_ABBR ==
  << << Alaska, <<"A", "K">> >>,
     << Connecticut, <<"C", "T">> >>,
     << Maine, <<"M", "E">> >>,
     << Nebraska, <<"N", "E">> >>,
     << New \o <<"-">> \o Hampshire, <<"N", "H">> >>,
     << New \o <<"-">> \o Jersey, <<"N", "J">> >>,
     << New \o <<"-">> \o York, <<"N", "Y">> >> >>

\* dict.get(key, default) and d[key] = value on a dict kept as the sequence
\* of its items
get(d, key, default) ==
  IF \E i \in 1..Len(d) : d[i][1] = key
  THEN d[CHOOSE i \in 1..Len(d) : d[i][1] = key][2]
  ELSE default

DictSet(d, key, value) ==
  IF \E i \in 1..Len(d) : d[i][1] = key
  THEN [d EXCEPT ![CHOOSE i \in 1..Len(d) : d[i][1] = key] = << key, value >>]
  ELSE Append(d, << key, value >>)

get_state_list == [i \in 1..Len(STATE_ABBR) |-> STATE_ABBR[i][1]]

\* zip_ranges, in the order of the literal: the names as that literal spells
\* them and the first number of each of the state's ranges (connecticut is one
\* of the three states with two); the model keeps the first MaxRange numbers
\* of each range
zip_ranges ==
  << << Alaska, << 99500 >> >>,
     << Connecticut, << 6001, 6401 >> >>,
     << Maine, << 3900 >> >>,
     << Nebraska, << 68100 >> >>,
     << New \o <<"_">> \o Hampshire, << 33000 >> >>,
     << New \o <<"_">> \o Jersey, << 7000 >> >>,
     << New \o <<"_">> \o York, << 10000 >> >> >>

\* the five-digit matches a state's page may hold, in page order
PageZips == { zfill(str(501), 5), zfill(str(99501), 5) }
ZipMatches == SeqsUpTo(PageZips, MaxMatches)

\* the strings input() may return
Choices == { <<"1">>, <<"1", " ">>, <<"2">> }

\* main lines 135-140: the choice is read
ZcInput ==
  /\ script = "zc"
  /\ zc_pc = "input"
  /\ \E line \in Choices :
       /\ choice' = Strip(line)
       /\ zc_pc' = IF Strip(line) = <<"1">> THEN "method1" ELSE "usps"
  /\ zc_i' = 1
  /\ UNCHANGED << zcfixed, zip_data, json_files >>

\* scrape_zip_codes_method1, one state of the loop: the sorted distinct
\* matches of its page, or [] when the request or the parse raised
ZcScrape ==
  /\ script = "zc"
  /\ zc_pc = "method1"
  /\ LET state == get_state_list[zc_i]
     IN  \/ \E zip_codes \in ZipMatches :
              zip_data' = DictSet(zip_data, state,
                                  sorted({ zip_codes[k] : k \in 1..Len(zip_codes) }))
         \/ zip_data' = DictSet(zip_data, state, <<>>)
  /\ IF zc_i < Len(get_state_list)
     THEN zc_i' = zc_i + 1 /\ UNCHANGED zc_pc
     ELSE zc_i' = 1 /\ zc_pc' = "save"
  /\ UNCHANGED << zcfixed, choice, json_files >>

\* lines 119-120 for one item of zip_ranges
RECURSIVE UspsList(_)
UspsList(firsts) ==
  IF firsts = <<>> THEN <<>>
  ELSE [k \in 1..MaxRange |-> zfill(str(firsts[1] + k - 1), 5)]
       \o UspsList(Tail(firsts))

RECURSIVE UspsData(_, _)
UspsData(d, i) ==
  IF i > Len(zip_ranges) THEN d
  ELSE UspsData(DictSet(d, zip_ranges[i][1], UspsList(zip_ranges[i][2])), i + 1)

\* get_zip_codes_from_usps_format
ZcUsps ==
  /\ script = "zc"
  /\ zc_pc = "usps"
  /\ zip_data' = UspsData(zip_data, 1)
  /\ zc_i' = 1
  /\ zc_pc' = "save"
  /\ UNCHANGED << zcfixed, choice, json_files >>

\* line 126: the abbreviation save_to_json_per_state_abbr uses for a key
Abbr(state) == get(STATE_ABBR, lower(state), upper(SubSeq(state, 1, Min(2, Len(state)))))

\* save_to_json_per_state_abbr, one item of the loop: <abbr>.json is opened
\* with "w" and holds {abbr: zip_codes}
ZcSave ==
  /\ script = "zc"
  /\ zc_pc = "save"
  /\ zc_i <= Len(zip_data)
  /\ LET abbr == Abbr(zip_data[zc_i][1])
     IN  json_files' = (abbr :> (abbr :> zip_data[zc_i][2])) @@ json_files
  /\ IF zc_i < Len(zip_data)
     THEN zc_i' = zc_i + 1 /\ UNCHANGED zc_pc
     ELSE zc_i' = 0 /\ zc_pc' = "done"
  /\ UNCHANGED << zcfixed, choice, zip_data >>

NextZc == ZcInput \/ ZcScrape \/ ZcUsps \/ ZcSave

InitZc ==
  /\ script = "zc"
  /\ BATCH_SIZE = 0
  /\ QueueInit
  /\ SspInit
  /\ ZcInit
  /\ BbInit
  /\ StartInit
  /\ PostInit

SpecZc == InitZc /\ [][NextZc]_vars

\* ================================================= blackbox
\* what the data-cleaning tool leaves alone
bbfixed == << script, BATCH_SIZE, queuevars, sspvars, zcvars, startvars, postvars >>

\* ---- cell values: a number n/d in lowest terms, NaN (also NaT), a string,
\* a timestamp n ns after the epoch, the date a digit string parses to, and
\* +sqrt(n/d) or -sqrt(n/d), which is what a z-score is
Abs(x) == IF x < 0 THEN 0 - x ELSE x

RECURSIVE GCD(_, _)
GCD(a, b) == IF b = 0 THEN a ELSE GCD(b, a % b)

NaN == [t |-> "nan", n |-> 0, d |-> 1, s |-> <<>>]

NumCell(n, d) ==
  LET g == GCD(Abs(n), d)
  IN  [t |-> "num", n |-> n \div g, d |-> d \div g, s |-> <<>>]

TextCell(s) == [t |-> "str", n |-> 0, d |-> 1, s |-> s]

isna(c) == c.t = "nan"
IsNum(c) == c.t = "num"

RAdd(a, b) == NumCell(a.n * b.d + b.n * a.d, a.d * b.d)
RSub(a, b) == NumCell(a.n * b.d - b.n * a.d, a.d * b.d)
RMul(a, b) == NumCell(a.n * b.n, a.d * b.d)
RLess(a, b) == a.n * b.d < b.n * a.d
\* a / b for b > 0
RDiv(a, b) == NumCell(a.n * b.d, a.d * b.n)

\* ---- the uploaded file: its lines, each line the sequence of its fields
Header == <<" ", "A", " ", "b">>
Fields == { <<>>, <<"1">>, <<"9">>, <<"x">> }

\* the files the model uploads, all of one column: empty, with the header
\* line, and without a header line; an empty field is one written as ""
Files ==
  { <<>> }
  \cup { << <<Header>> >> \o data : data \in SeqsUpTo({ <<f>> : f \in Fields }, MaxRows) }
  \cup (SeqsUpTo({ <<f>> : f \in Fields }, MaxRows) \ { <<>> })

\* the header rows the user sets for a file: 0 (the default) or -1 when its
\* first line is the header, -1 when it has none
HeaderRows(file) ==
  IF file = <<>> \/ file[1] = <<Header>> THEN {0, -1} ELSE {-1}

IsDigits(s) == s # <<>> /\ \A i \in 1..Len(s) : \E k \in 1..10 : Digits[k] = s[i]

RECURSIVE DigitsValue(_)
DigitsValue(s) ==
  IF s = <<>> THEN 0
  ELSE 10 * DigitsValue(SubSeq(s, 1, Len(s) - 1))
       + (CHOOSE k \in 1..10 : Digits[k] = s[Len(s)]) - 1

NoDf == [columns |-> <<>>, dtypes |-> <<>>, rows |-> <<>>]

\* pd.read_csv(uploaded, header=None if header_row == -1 else header_row): an
\* empty file raises; the labels are the header line or 0, 1, ...; an empty
\* field is NaN; a column whose other fields are all numbers is numeric, any
\* other column (one without rows too) holds its fields as strings
read_csv(lines, header) ==
  IF lines = <<>> THEN [error |-> TRUE, df |-> NoDf]
  ELSE
    LET data == IF header = 0 THEN Tail(lines) ELSE lines
        ncols == Len(lines[1])
        numeric(j) ==
          /\ data # <<>>
          /\ \A i \in 1..Len(data) : data[i][j] = <<>> \/ IsDigits(data[i][j])
        cell(i, j) ==
          IF data[i][j] = <<>> THEN NaN
          ELSE IF numeric(j) THEN NumCell(DigitsValue(data[i][j]), 1)
          ELSE TextCell(data[i][j])
    IN  [error |-> FALSE,
         df |-> [columns |-> [j \in 1..ncols |->
                                IF header = 0
                                THEN [int |-> FALSE, num |-> 0, name |-> lines[1][j]]
                                ELSE [int |-> TRUE, num |-> j - 1, name |-> <<>>]],
                 dtypes |-> [j \in 1..ncols |-> IF numeric(j) THEN "num" ELSE "obj"],
                 rows |-> [i \in 1..Len(data) |-> [j \in 1..ncols |-> cell(i, j)]]]]

\* ---- data frame helpers
Cols(df) == 1..Len(df.columns)
NumericCols(df) == { j \in Cols(df) : df.dtypes[j] = "num" }

\* the rows of df whose position is in K, in order
RECURSIVE Pick(_, _, _)
Pick(rows, K, i) ==
  IF i > Len(rows) THEN <<>>
  ELSE (IF i \in K THEN << rows[i] >> ELSE <<>>) \o Pick(rows, K, i + 1)

KeepRows(df, K) == [df EXCEPT !.rows = Pick(df.rows, K, 1)]

\* the positions of the numbers of column j
NumIdx(df, j) == { i \in 1..Len(df.rows) : IsNum(df.rows[i][j]) }

RECURSIVE Sum(_, _, _)
Sum(df, j, I) ==
  IF I = {} THEN NumCell(0, 1)
  ELSE LET i == CHOOSE x \in I : TRUE
       IN  RAdd(df.rows[i][j], Sum(df, j, I \ {i}))

\* Series.mean(skipna=True): NaN when there is no number
mean(df, j) ==
  IF NumIdx(df, j) = {} THEN NaN
  ELSE RDiv(Sum(df, j, NumIdx(df, j)), NumCell(Cardinality(NumIdx(df, j)), 1))

\* the numbers of column j in ascending order
RECURSIVE SortedNums(_, _, _)
SortedNums(df, j, I) ==
  IF I = {} THEN <<>>
  ELSE LET i == CHOOSE x \in I : \A y \in I : ~RLess(df.rows[y][j], df.rows[x][j])
       IN  << df.rows[i][j] >> \o SortedNums(df, j, I \ {i})

\* Series.median()
median(df, j) ==
  LET v == SortedNums(df, j, NumIdx(df, j))
      k == Len(v)
  IN  IF k = 0 THEN NaN
      ELSE IF k % 2 = 1 THEN v[(k + 1) \div 2]
      ELSE RDiv(RAdd(v[k \div 2], v[(k \div 2) + 1]), NumCell(2, 1))

\* the order of characters and of strings
CharOrder == <<" ", "1", "9", "A", "b", "x">>
Ord(c) == CHOOSE k \in 1..Len(CharOrder) : CharOrder[k] = c

RECURSIVE TextLess(_, _)
TextLess(a, b) ==
  IF a = <<>> THEN b # <<>>
  ELSE IF b = <<>> THEN FALSE
  ELSE IF Head(a) = Head(b) THEN TextLess(Tail(a), Tail(b))
  ELSE Ord(Head(a)) < Ord(Head(b))

CellLess(a, b) ==
  IF IsNum(a) /\ IsNum(b) THEN RLess(a, b) ELSE TextLess(a.s, b.s)

\* Series.mode(dropna=True).iloc[0]: the least of the most frequent values,
\* NaN standing for the empty result
mode(df, j) ==
  LET I == { i \in 1..Len(df.rows) : ~isna(df.rows[i][j]) }
      count(v) == Cardinality({ i \in I : df.rows[i][j] = v })
      V == { df.rows[i][j] : i \in I }
      best == { v \in V : \A u \in V : count(u) <= count(v) }
  IN  IF V = {} THEN NaN
      ELSE CHOOSE v \in best : \A u \in best : u = v \/ CellLess(v, u)

\* fillna on the columns of DOMAIN value, each with its own value[j] (NaN:
\* nothing to fill with); with retype a numeric column that had a NaN becomes
\* object
FillWith(df, value, retype) ==
  [df EXCEPT
     !.rows = [i \in 1..Len(df.rows) |->
                 [j \in Cols(df) |->
                    IF j \in DOMAIN value /\ isna(df.rows[i][j]) /\ ~isna(value[j])
                    THEN value[j] ELSE df.rows[i][j]]],
     !.dtypes = [j \in Cols(df) |->
                   IF /\ retype
                      /\ j \in DOMAIN value
                      /\ df.dtypes[j] = "num"
                      /\ \E i \in 1..Len(df.rows) : isna(df.rows[i][j])
                   THEN "obj" ELSE df.dtypes[j]]]

\* ---- the operations
\* DataFrame.drop_duplicates(subset, keep); subset {} stands for None
drop_duplicates(df, subset, keep) ==
  LET S == IF subset = {} THEN Cols(df) ELSE subset
      key(i) == [j \in S |-> df.rows[i][j]]
      n == Len(df.rows)
  IN  KeepRows(df, { i \in 1..n :
                      CASE keep = "first" -> \A k \in 1..(i - 1) : key(k) # key(i)
                        [] keep = "last" -> \A k \in (i + 1)..n : key(k) # key(i)
                        [] OTHER -> \A k \in 1..n : k = i \/ key(k) # key(i) })

\* DataFrame.dropna(subset, how)
dropna(df, subset, how) ==
  KeepRows(df, { i \in 1..Len(df.rows) :
                  IF how = "any" THEN \A j \in subset : ~isna(df.rows[i][j])
                  ELSE \E j \in subset : ~isna(df.rows[i][j]) })

\* pd.to_numeric(errors="coerce") and pd.to_datetime(errors="coerce") of a cell
ToNumber(c) ==
  IF c.t = "str" THEN (IF IsDigits(c.s) THEN NumCell(DigitsValue(c.s), 1) ELSE NaN)
  ELSE c

ToTimestamp(c) ==
  CASE c.t = "num" -> [t |-> "dt", n |-> c.n \div c.d, d |-> 1, s |-> <<>>]
    [] c.t = "str" -> (IF IsDigits(c.s) THEN [t |-> "date", n |-> 0, d |-> 1, s |-> c.s]
                       ELSE NaN)
    [] OTHER -> c

to_numeric(df, cols) ==
  [df EXCEPT
     !.rows = [i \in 1..Len(df.rows) |->
                 [j \in Cols(df) |->
                    IF j \in cols THEN ToNumber(df.rows[i][j]) ELSE df.rows[i][j]]],
     !.dtypes = [j \in Cols(df) |-> IF j \in cols THEN "num" ELSE df.dtypes[j]]]

to_datetime(df, cols) ==
  [df EXCEPT
     !.rows = [i \in 1..Len(df.rows) |->
                 [j \in Cols(df) |->
                    IF j \in cols THEN ToTimestamp(df.rows[i][j]) ELSE df.rows[i][j]]],
     !.dtypes = [j \in Cols(df) |-> IF j \in cols THEN "dt" ELSE df.dtypes[j]]]

\* Series.std(skipna=True) squared: the sample variance, NaN below two numbers
variance(df, j) ==
  LET I == NumIdx(df, j)
      mu == mean(df, j)
      sq(i) == RMul(RSub(df.rows[i][j], mu), RSub(df.rows[i][j], mu))
      sqs == [df EXCEPT !.rows = [i \in 1..Len(df.rows) |->
                                    [k \in Cols(df) |->
                                       IF k = j /\ i \in I THEN sq(i) ELSE NaN]]]
  IN  IF Cardinality(I) < 2 THEN NaN
      ELSE RDiv(Sum(sqs, j, I), NumCell(Cardinality(I) - 1, 1))

\* `if sigma and not np.isnan(sigma) and sigma != 0`
HasSigma(df, j) == IsNum(variance(df, j)) /\ variance(df, j).n # 0

\* remove_outliers_z without `| col.isna()`
remove_outliers_z_nan(df, cols, z) ==
  LET C == { c \in cols : c \in Cols(df) /\ df.dtypes[c] = "num" }
      le(i, c) ==
        LET dev == RSub(df.rows[i][c], mean(df, c))
        IN  ~RLess(RMul(NumCell(z * z, 100), variance(df, c)), RMul(dev, dev))
  IN  IF C = {} THEN df
      ELSE KeepRows(df, { i \in 1..Len(df.rows) :
                           \A c \in C :
                             HasSigma(df, c)
                             => (~isna(df.rows[i][c]) /\ le(i, c)) })

\* remove_outliers_z; z is the threshold in tenths
remove_outliers_z(df, cols, z) ==
  LET C == { c \in cols : c \in Cols(df) /\ df.dtypes[c] = "num" }
      le(i, c) ==
        LET dev == RSub(df.rows[i][c], mean(df, c))
        IN  ~RLess(RMul(NumCell(z * z, 100), variance(df, c)), RMul(dev, dev))
  IN  IF C = {} THEN df
      ELSE KeepRows(df, { i \in 1..Len(df.rows) :
                           \A c \in C :
                             HasSigma(df, c)
                             => (isna(df.rows[i][c]) \/ le(i, c)) })

\* (x - mu) / sigma, kept exact as a signed square root
ZScore(x, mu, var) ==
  LET dev == RSub(x, mu)
      q == RDiv(RMul(dev, dev), var)
  IN  IF dev.n = 0 THEN NumCell(0, 1)
      ELSE [t |-> IF dev.n > 0 THEN "sqrt+" ELSE "sqrt-", n |-> q.n, d |-> q.d, s |-> <<>>]

ColMin(df, j) == SortedNums(df, j, NumIdx(df, j))[1]
ColMax(df, j) == SortedNums(df, j, NumIdx(df, j))[Cardinality(NumIdx(df, j))]

\* `if rng and not np.isnan(rng) and rng != 0`
HasRange(df, j) == NumIdx(df, j) # {} /\ ColMin(df, j) # ColMax(df, j)

scale_cols(df, cols, method) ==
  LET C == { c \in cols : c \in Cols(df) /\ df.dtypes[c] = "num" }
      scaled(i, c) ==
        IF ~IsNum(df.rows[i][c]) THEN df.rows[i][c]
        ELSE IF method = "zscore"
        THEN (IF HasSigma(df, c)
              THEN ZScore(df.rows[i][c], mean(df, c), variance(df, c))
              ELSE df.rows[i][c])
        ELSE (IF HasRange(df, c)
              THEN RDiv(RSub(df.rows[i][c], ColMin(df, c)),
                        RSub(ColMax(df, c), ColMin(df, c)))
              ELSE df.rows[i][c])
  IN  IF C = {} THEN df
      ELSE [df EXCEPT !.rows = [i \in 1..Len(df.rows) |->
                                  [j \in Cols(df) |->
                                     IF j \in C THEN scaled(i, j) ELSE df.rows[i][j]]]]

\* the non-blank query strings of the model: one that compares the first
\* column with 1 and one that pandas cannot evaluate
QueryGt == <<"A", ">", "1">>
QueryBad == <<"x", "x">>

\* whether a cell is greater than 1; NaN compares False
GreaterThanOne(c) ==
  CASE c.t = "num" -> c.n > c.d
    [] c.t = "sqrt+" -> c.n > c.d
    [] OTHER -> FALSE

\* DataFrame.query(filter_query): it raises for a string it cannot evaluate,
\* for a column it cannot name (an integer label), and for a comparison of a
\* string or a timestamp with a number
query(df, q) ==
  IF \/ q # QueryGt
     \/ df.columns = <<>>
     \/ df.columns[1].int
     \/ df.dtypes[1] = "dt"
     \/ \E i \in 1..Len(df.rows) : df.rows[i][1].t = "str"
  THEN [raised |-> TRUE, df |-> df]
  ELSE [raised |-> FALSE,
        df |-> KeepRows(df, { i \in 1..Len(df.rows) : GreaterThanOne(df.rows[i][1]) })]

replace(s, old, new) == [i \in 1..Len(s) |-> IF s[i] = old THEN new ELSE s[i]]

\* str.swapcase
swapcase(s) ==
  [i \in 1..Len(s) |-> IF lower(<< s[i] >>) = << s[i] >> THEN upper(<< s[i] >>)[1]
                       ELSE lower(<< s[i] >>)[1]]

\* rename_columns with swapcase in the place of lower
rename_columns_swapcase(df, to_lower, strip_spaces, unders) ==
  LET calls == strip_spaces \/ to_lower \/ unders
      nc(c) ==
        LET a == IF strip_spaces THEN Strip(c.name) ELSE c.name
            b == IF to_lower THEN swapcase(a) ELSE a
        IN  [c EXCEPT !.name = IF unders THEN replace(b, " ", "_") ELSE b]
  IN  IF calls /\ \E j \in Cols(df) : df.columns[j].int
      THEN [raised |-> TRUE, df |-> df]
      ELSE [raised |-> FALSE,
            df |-> [df EXCEPT !.columns = [j \in Cols(df) |-> nc(df.columns[j])]]]

\* rename_columns: the str methods are called on the label itself, and a
\* label of a frame read without a header is an int, which has none of them
rename_columns(df, to_lower, strip_spaces, unders) ==
  LET calls == strip_spaces \/ to_lower \/ unders
      nc(c) ==
        LET a == IF strip_spaces THEN Strip(c.name) ELSE c.name
            b == IF to_lower THEN lower(a) ELSE a
        IN  [c EXCEPT !.name = IF unders THEN replace(b, " ", "_") ELSE b]
  IN  IF calls /\ \E j \in Cols(df) : df.columns[j].int
      THEN [raised |-> TRUE, df |-> df]
      ELSE [raised |-> FALSE,
            df |-> [df EXCEPT !.columns = [j \in Cols(df) |-> nc(df.columns[j])]]]

\* ---- the widgets
\* lines 138-176: the value every widget has before the user touches it
Defaults ==
  [rm_dupes |-> FALSE, dupe_subset |-> {}, keep_opt |-> "first",
   miss_strategy |-> "none", miss_cols |-> {}, drop_how |-> "any",
   fill_value |-> <<>>,
   num_cols_convert |-> {}, dt_cols_convert |-> {},
   out_enable |-> FALSE, out_cols |-> {}, z_thresh |-> 30,
   scale_enable |-> FALSE, scale_method |-> "zscore", scale_cols_sel |-> {},
   filter_query |-> <<>>,
   ren_enable |-> TRUE, to_lower |-> TRUE, strip_spaces |-> TRUE, unders |-> TRUE]

\* what the user may set in each group of widgets (z_thresh in tenths)
WidgetGroups ==
  << { [rm_dupes |-> TRUE, keep_opt |-> k] : k \in {"first", "last", "drop all"} },
     { [miss_strategy |-> m] : m \in {"drop", "mean", "median", "mode"} }
       \cup { [miss_strategy |-> "constant", fill_value |-> f] : f \in { <<>>, <<"1">> } },
     { [num_cols_convert |-> {1}],
       [dt_cols_convert |-> {1}],
       [num_cols_convert |-> {1}, dt_cols_convert |-> {1}] },
     { [out_enable |-> TRUE] }
       \cup { [out_enable |-> TRUE, out_cols |-> {1}, z_thresh |-> z] : z \in {10, 30} },
     { [scale_enable |-> TRUE, scale_cols_sel |-> {1}, scale_method |-> m] :
         m \in {"zscore", "minmax"} },
     { [filter_query |-> q] : q \in { <<" ">>, QueryGt, QueryBad } },
     { [ren_enable |-> FALSE] }
       \cup { [to_lower |-> a, strip_spaces |-> b, unders |-> c] :
                a \in BOOLEAN, b \in BOOLEAN, c \in BOOLEAN } >>

\* the changes of at most k of the groups g, g + 1, ...
RECURSIVE Patches(_, _)
Patches(g, k) ==
  IF g > Len(WidgetGroups) \/ k = 0 THEN { <<>> }
  ELSE Patches(g + 1, k)
       \cup { p @@ r : p \in WidgetGroups[g], r \in Patches(g + 1, k - 1) }

Settings == { p @@ Defaults : p \in Patches(1, MaxChanged) }

\* lines 158 and 165: the outlier and scaling widgets offer only the numeric
\* columns of df_raw
WidgetsFor(df, w) ==
  [w EXCEPT !.out_cols = @ \cap NumericCols(df),
            !.scale_cols_sel = @ \cap NumericCols(df)]

\* ---- the pipeline
PipelineOrder ==
  <<"duplicates", "missing", "conversion", "outliers", "scaling", "filter", "rename">>

\* an operation has run: df_out is reassigned and its lines are appended to
\* changes; steps keeps the frames before and after it
Ran(s, op, out, lines) ==
  [s EXCEPT !.df = out,
            !.changes = @ \o lines,
            !.steps = Append(@, [op |-> op, before |-> s.df, after |-> out])]

Dropped(s, out) == Len(s.df.rows) - Len(out.rows)

\* lines 188-193
RunDuplicates(s, w) ==
  IF w.rm_dupes
  THEN LET out == drop_duplicates(s.df, w.dupe_subset, w.keep_opt)
       IN  Ran(s, "duplicates", out, << [op |-> "duplicates", n |-> Dropped(s, out)] >>)
  ELSE s

\* lines 196-216
RunMissing(s, w) ==
  LET cols == IF w.miss_cols = {} THEN Cols(s.df) ELSE w.miss_cols
      numc == cols \cap NumericCols(s.df)
  IN  CASE w.miss_strategy = "drop" ->
             LET out == dropna(s.df, cols, w.drop_how)
             IN  Ran(s, "missing", out, << [op |-> "drop", n |-> Dropped(s, out)] >>)
        [] w.miss_strategy \in {"mean", "median"} ->
             IF numc = {} THEN Ran(s, "missing", s.df, <<>>)
             ELSE Ran(s, "missing",
                      IF w.miss_strategy = "mean"
                      THEN FillWith(s.df, [j \in numc |-> mean(s.df, j)], FALSE)
                      ELSE FillWith(s.df, [j \in numc |-> median(s.df, j)], FALSE),
                      << [op |-> w.miss_strategy, n |-> Cardinality(numc)] >>)
        [] w.miss_strategy = "mode" ->
             Ran(s, "missing", FillWith(s.df, [j \in cols |-> mode(s.df, j)], FALSE),
                 << [op |-> "mode", n |-> Cardinality(cols)] >>)
        [] w.miss_strategy = "constant" ->
             Ran(s, "missing",
                 FillWith(s.df, [j \in cols |-> TextCell(w.fill_value)], TRUE),
                 << [op |-> "constant", n |-> Cardinality(cols)] >>)
        [] OTHER -> s

\* lines 219-224
RunConversion(s, w) ==
  LET a == IF w.num_cols_convert # {} THEN to_numeric(s.df, w.num_cols_convert) ELSE s.df
      b == IF w.dt_cols_convert # {} THEN to_datetime(a, w.dt_cols_convert) ELSE a
      la == IF w.num_cols_convert # {}
            THEN << [op |-> "numeric", n |-> Cardinality(w.num_cols_convert)] >> ELSE <<>>
      lb == IF w.dt_cols_convert # {}
            THEN << [op |-> "datetime", n |-> Cardinality(w.dt_cols_convert)] >> ELSE <<>>
  IN  IF w.num_cols_convert # {} \/ w.dt_cols_convert # {}
      THEN Ran(s, "conversion", b, la \o lb)
      ELSE s

\* lines 227-230
RunOutliers(s, w) ==
  IF w.out_enable /\ w.out_cols # {}
  THEN LET out == remove_outliers_z(s.df, w.out_cols, w.z_thresh)
       IN  Ran(s, "outliers", out, << [op |-> "outliers", n |-> Dropped(s, out)] >>)
  ELSE s

\* lines 233-235
RunScaling(s, w) ==
  IF w.scale_enable /\ w.scale_cols_sel # {}
  THEN Ran(s, "scaling", scale_cols(s.df, w.scale_cols_sel, w.scale_method),
           << [op |-> w.scale_method, n |-> Cardinality(w.scale_cols_sel)] >>)
  ELSE s

\* lines 238-244: a query that raises leaves df_out alone and warns
RunFilter(s, w) ==
  IF Strip(w.filter_query) # <<>>
  THEN LET r == query(s.df, w.filter_query)
       IN  IF r.raised
           THEN [Ran(s, "filter", s.df, <<>>) EXCEPT !.warning = TRUE]
           ELSE Ran(s, "filter", r.df, << [op |-> "filter", n |-> Dropped(s, r.df)] >>)
  ELSE s

\* lines 247-249: an exception of rename_columns is caught nowhere
RunRename(s, w) ==
  IF w.ren_enable
  THEN LET r == rename_columns(s.df, w.to_lower, w.strip_spaces, w.unders)
       IN  IF r.raised THEN [s EXCEPT !.exception = TRUE]
           ELSE Ran(s, "rename", r.df, << [op |-> "rename", n |-> 0] >>)
  ELSE s

RunOp(op, s, w) ==
  CASE op = "duplicates" -> RunDuplicates(s, w)
    [] op = "missing" -> RunMissing(s, w)
    [] op = "conversion" -> RunConversion(s, w)
    [] op = "outliers" -> RunOutliers(s, w)
    [] op = "scaling" -> RunScaling(s, w)
    [] op = "filter" -> RunFilter(s, w)
    [] op = "rename" -> RunRename(s, w)

\* lines 183-249: the operations from the k-th on, until one raises
RECURSIVE RunFrom(_, _, _)
RunFrom(k, s, w) ==
  IF k > Len(PipelineOrder) \/ s.exception THEN s
  ELSE RunFrom(k + 1, RunOp(PipelineOrder[k], s, w), w)

\* lines 183-184
Untouched(df) ==
  [df |-> df, changes |-> <<>>, steps |-> <<>>, warning |-> FALSE, exception |-> FALSE]

\* one run of the script from line 183 on
RunScript(df, w, pressed) ==
  LET s == IF pressed THEN RunFrom(1, Untouched(df), w) ELSE Untouched(df)
  IN  /\ apply_btn' = pressed
      /\ df_out' = s.df
      /\ changes' = s.changes
      /\ steps' = s.steps
      /\ warning' = s.warning
      /\ exception' = s.exception
      /\ download_button' = (pressed /\ ~s.exception)

\* lines 97-117: a file is uploaded and read; the script stops on a failure
BbUpload ==
  /\ script = "bb"
  /\ bb_pc = "start"
  /\ \E file \in Files :
     \E header \in HeaderRows(file) :
       /\ uploaded' = file
       /\ header_row' = header
       /\ df_raw' = read_csv(file, header).df
       /\ bb_pc' = IF read_csv(file, header).error THEN "stopped" ELSE "shown"
       /\ RunScript(read_csv(file, header).df, widgets, FALSE)
  /\ UNCHANGED << bbfixed, widgets >>

\* lines 138-178: the user sets widgets; the script reruns without Apply
BbSet ==
  /\ script = "bb"
  /\ bb_pc = "shown"
  /\ \E w \in Settings : widgets' = WidgetsFor(df_raw, w)
  /\ bb_pc' = "set"
  /\ RunScript(df_raw, widgets', FALSE)
  /\ UNCHANGED << bbfixed, uploaded, header_row, df_raw >>

\* line 178: "Apply operations" is pressed
BbApply ==
  /\ script = "bb"
  /\ bb_pc = "set"
  /\ bb_pc' = "applied"
  /\ RunScript(df_raw, widgets, TRUE)
  /\ UNCHANGED << bbfixed, uploaded, header_row, df_raw, widgets >>

\* any later interaction that is not Apply (the download button too) reruns
\* the script with apply_btn False
BbRerun ==
  /\ script = "bb"
  /\ bb_pc = "applied"
  /\ bb_pc' = "set"
  /\ RunScript(df_raw, widgets, FALSE)
  /\ UNCHANGED << bbfixed, uploaded, header_row, df_raw, widgets >>

NextBb == BbUpload \/ BbSet \/ BbApply \/ BbRerun

InitBb ==
  /\ script = "bb"
  /\ BATCH_SIZE = 0
  /\ QueueInit
  /\ SspInit
  /\ ZcInit
  /\ BbInit
  /\ StartInit
  /\ PostInit

SpecBb == InitBb /\ [][NextBb]_vars

\* ---- remove_outliers_z called on its own
\* the frames it is called on: two columns read without a header line, the
\* second one numeric or not
OutFiles ==
  SeqsUpTo({ <<>>, <<"1">>, <<"9">> } \X { <<>>, <<"1">>, <<"9">>, <<"x">> },
           MaxOutRows) \ { <<>> }

\* the selections: a column, both columns, and one with a column the frame
\* does not have
OutSelections == { {1}, {1, 2}, {2, 3} }

OutApply ==
  /\ script = "outliers"
  /\ bb_pc = "start"
  /\ df_out' = remove_outliers_z(df_raw, widgets.out_cols, widgets.z_thresh)
  /\ bb_pc' = "applied"
  /\ UNCHANGED << bbfixed, uploaded, header_row, df_raw, widgets, apply_btn,
                  changes, steps, warning, exception, download_button >>

NextOut == OutApply

InitOut ==
  /\ script = "outliers"
  /\ BATCH_SIZE = 0
  /\ QueueInit
  /\ SspInit
  /\ ZcInit
  /\ StartInit
  /\ PostInit
  /\ bb_pc = "start"
  /\ uploaded \in OutFiles
  /\ header_row = -1
  /\ df_raw = read_csv(uploaded, -1).df
  /\ widgets \in { [Defaults EXCEPT !.out_enable = TRUE, !.out_cols = c,
                                    !.z_thresh = z] :
                     c \in OutSelections, z \in {10, 30} }
  /\ apply_btn = FALSE
  /\ df_out = NoDf
  /\ changes = <<>>
  /\ steps = <<>>
  /\ warning = FALSE
  /\ exception = FALSE
  /\ download_button = FALSE

SpecOut == InitOut /\ [][NextOut]_vars

\* ================================== the start of the workers, long queues
\* what the start of the workers leaves alone
startfixed == << script, BATCH_SIZE, sspvars, zcvars, bbvars, run, input_ok,
                 files_left, zip_json_len, state_abbr, th, progress_lock,
                 sharedvars, output_file, fs, last_report, reports_written,
                 csv_written, browsers, shown, taken, fails, opened,
                 skipped_zips, succeeded, postvars >>

\* a queue of n entries that are neither blank nor already processed
FilledQueue(n) == [i \in 1..n |-> [id |-> i, zip |-> <<"1">>]]

\* scraper_single_page2 lines 153-157, car.com_updated lines 179-195: the queue
\* is filled and counted; car.com_updated passes over a state with no entry
StartFill ==
  /\ script \in {"sp2", "car"}
  /\ mainpc = "start"
  /\ \E n \in 0..MaxQueue :
       /\ zip_queue' = FilledQueue(n)
       /\ queued' = FilledQueue(n)
       /\ total_zipcodes' = n
       /\ mainpc' = IF script = "car" /\ n = 0 THEN "loop" ELSE "range"
  /\ UNCHANGED << startfixed, threads, startvars >>

\* `for _ in range(min(THREAD_COUNT, zip_queue.qsize()))`: the range is
\* evaluated once, before the first thread is started
StartRange ==
  /\ mainpc = "range"
  /\ start_n' = ThreadsToStart(Len(zip_queue))
  /\ mainpc' = "starting"
  /\ UNCHANGED << startfixed, zip_queue, queued, total_zipcodes, threads, alive >>

\* one pass of the loop: t.start(), threads.append(t); or the loop's end
StartThread ==
  /\ mainpc = "starting"
  /\ IF threads < start_n
     THEN /\ threads' = threads + 1
          /\ alive' = alive + 1
          /\ UNCHANGED mainpc
     ELSE /\ mainpc' = "join"
          /\ UNCHANGED << threads, alive >>
  /\ UNCHANGED << startfixed, zip_queue, queued, total_zipcodes, start_n >>

\* a started worker takes an entry from the queue
WorkerTakes ==
  /\ alive > 0
  /\ zip_queue # <<>>
  /\ zip_queue' = QueueRest(zip_queue)
  /\ UNCHANGED << startfixed, mainpc, queued, total_zipcodes, threads, startvars >>

\* a started worker ends
WorkerEnds ==
  /\ alive > 0
  /\ alive' = alive - 1
  /\ UNCHANGED << startfixed, mainpc, zip_queue, queued, total_zipcodes, threads,
                  start_n >>

\* `for t in threads: t.join()` returns when every started thread has ended
StartJoined ==
  /\ mainpc = "join"
  /\ start_n >= 0
  /\ alive = 0
  /\ mainpc' = "done"
  /\ UNCHANGED << startfixed, zip_queue, queued, total_zipcodes, threads,
                  startvars >>

NextStart ==
  StartFill \/ StartRange \/ StartThread \/ WorkerTakes \/ WorkerEnds
  \/ StartJoined

SpecStart == Init /\ [][NextStart]_vars

\* ============== merge, merge_unique, remove_null, repeatcheck
\* what these scripts leave alone
postfixed == << script, BATCH_SIZE, queuevars, sspvars, zcvars, bbvars,
                startvars >>

\* ---- a CSV file is its header line and its data lines, a line the sequence
\* of its fields as written; a frame holds cells: NaN, an int, a float, a str
IntCell(n) == [t |-> "int", n |-> n, d |-> 1, s |-> <<>>]
FloatCell(n) == [t |-> "float", n |-> n, d |-> 1, s |-> <<>>]

NA == <<"N", "/", "A">>

\* the fields pd.read_csv reads as missing (those of its defaults used here)
NaTexts == { <<>>, NA, <<"n", "/", "a">>, <<"N", "A">> }

\* "12.0", as to_csv writes a float
IsFloatText(f) ==
  /\ Len(f) >= 3
  /\ SubSeq(f, Len(f) - 1, Len(f)) = <<".", "0">>
  /\ IsDigits(SubSeq(f, 1, Len(f) - 2))

IsNumberText(f) == IsDigits(f) \/ IsFloatText(f)

NumberValue(f) ==
  IF IsDigits(f) THEN DigitsValue(f) ELSE DigitsValue(SubSeq(f, 1, Len(f) - 2))

\* pd.read_csv(path) and pd.read_csv(path, dtype=str): a missing field is NaN;
\* without dtype a column whose other fields are all numbers is int64, or
\* float64 when a field is missing or written as a float; any other column
\* keeps its fields as they are written
pd_read_csv(file, as_str) ==
  LET data == file.data
      present(j) == { i \in 1..Len(data) : data[i][j] \notin NaTexts }
      numeric(j) ==
        ~as_str /\ \A i \in present(j) : IsNumberText(data[i][j])
      float(j) ==
        \/ present(j) # 1..Len(data)
        \/ \E i \in present(j) : IsFloatText(data[i][j])
      cell(i, j) ==
        IF data[i][j] \in NaTexts THEN NaN
        ELSE IF ~numeric(j) THEN TextCell(data[i][j])
        ELSE IF float(j) THEN FloatCell(NumberValue(data[i][j]))
        ELSE IntCell(NumberValue(data[i][j]))
  IN  [columns |-> file.header,
       rows |-> [i \in 1..Len(data) |->
                   [j \in 1..Len(file.header) |-> cell(i, j)]]]

\* str(x) of a cell that is not NaN
CellStr(c) ==
  CASE c.t = "int" -> str(c.n)
    [] c.t = "float" -> str(c.n) \o <<".", "0">>
    [] OTHER -> c.s

\* df.to_csv(path, index=False): NaN is written as the empty field
to_csv(df) ==
  [header |-> df.columns,
   data |-> [i \in 1..Len(df.rows) |->
               [j \in 1..Len(df.columns) |->
                  IF isna(df.rows[i][j]) THEN <<>> ELSE CellStr(df.rows[i][j])]]]

RECURSIVE Flatten(_)
Flatten(ss) == IF ss = <<>> THEN <<>> ELSE Head(ss) \o Flatten(Tail(ss))

\* pd.concat(df_list, ignore_index=True) of frames with the same columns: a
\* column that holds no str becomes float64 as soon as it holds a float or NaN
concat(df_list) ==
  LET rows == Flatten([k \in 1..Len(df_list) |-> df_list[k].rows])
      columns == df_list[1].columns
      floats(j) ==
        /\ \A i \in 1..Len(rows) : rows[i][j].t # "str"
        /\ \E i \in 1..Len(rows) : rows[i][j].t \in {"float", "nan"}
  IN  [columns |-> columns,
       rows |-> [i \in 1..Len(rows) |->
                   [j \in 1..Len(columns) |->
                      IF rows[i][j].t = "int" /\ floats(j)
                      THEN FloatCell(rows[i][j].n) ELSE rows[i][j]]]]

\* the value two cells are compared by: 1 and 1.0 are equal, NaN equals NaN
KeyOf(c) == IF c.t \in {"int", "float"} THEN [c EXCEPT !.t = "num"] ELSE c

RowKey(df, i, subset) == [j \in subset |-> KeyOf(df.rows[i][j])]

\* df.duplicated(subset, keep=False) and df.duplicated(subset) (keep="first"),
\* as sets of row positions
duplicated(df, subset, keep) ==
  { i \in 1..Len(df.rows) :
      \E k \in 1..Len(df.rows) :
        /\ k # i
        /\ keep = "first" => k < i
        /\ RowKey(df, k, subset) = RowKey(df, i, subset) }

AllCols(df) == 1..Len(df.columns)

\* df.drop_duplicates(subset, keep="first")
frame_drop_duplicates(df, subset) ==
  [df EXCEPT !.rows = Pick(df.rows, (1..Len(df.rows)) \ duplicated(df, subset, "first"), 1)]

ColumnOf(df, name) == CHOOSE j \in 1..Len(df.columns) : df.columns[j] = name

\* mutation: only the exact text N/A counts as no phone
has_phone_exact(x) ==
  IF isna(x) THEN FALSE
  ELSE LET val == Strip(CellStr(x)) IN val # <<>> /\ val # NA

\* merge.py, merge_unique.py, remove_null.py: has_phone
has_phone(x) ==
  IF isna(x) THEN FALSE
  ELSE LET val == upper(Strip(CellStr(x))) IN val # <<>> /\ val # NA

\* df['Phone(s)'].apply(has_phone).sum()
PhoneCount(df) ==
  Cardinality({ i \in 1..Len(df.rows) :
                  has_phone(df.rows[i][ColumnOf(df, "Phone(s)")]) })

\* a row of a merge report
ReportRow(file_name, df) ==
  LET with_phone == PhoneCount(df)
  IN  [file_name |-> file_name, rows |-> Len(df.rows), with_phone |-> with_phone,
       without_phone |-> Len(df.rows) - with_phone]

\* merge.py lines 29-70 and merge_unique.py lines 29-76: file number k of the
\* listing stands for its name in the report, 0 for "TOTAL"
merge(csv_files, unique) ==
  LET df_list == [k \in 1..Len(csv_files) |-> pd_read_csv(csv_files[k], FALSE)]
      report_data == [k \in 1..Len(csv_files) |-> ReportRow(k, df_list[k])]
      all == concat(df_list)
      merged_df == IF unique THEN frame_drop_duplicates(all, AllCols(all)) ELSE all
  IN  [NoOutput EXCEPT !.written = {"merged", "report"},
                       !.merged = to_csv(merged_df),
                       !.report = Append(report_data, ReportRow(0, merged_df))]

\* df.dropna(how="any")
frame_dropna(df) ==
  [df EXCEPT !.rows = Pick(df.rows,
       { i \in 1..Len(df.rows) : \A j \in AllCols(df) : ~isna(df.rows[i][j]) }, 1)]

\* remove_null.py line 36: the rows in which no field, as a string, is blank
DropBlank(df) ==
  [df EXCEPT !.rows = Pick(df.rows,
       { i \in 1..Len(df.rows) :
           \A j \in AllCols(df) : Strip(CellStr(df.rows[i][j])) # <<>> }, 1)]

\* remove_null.py lines 20-55
remove_null(source) ==
  LET df0 == pd_read_csv(source, FALSE)
      df == frame_drop_duplicates(DropBlank(frame_dropna(df0)), AllCols(df0))
  IN  [NoOutput EXCEPT !.written = {"merged", "report"},
                       !.merged = to_csv(df),
                       !.report = << ReportRow(1, df0), ReportRow(0, df) >>]

key_cols_two == <<"Business Name", "Phone">>

key_cols == <<"Business Name", "Phone", "Address">>

HasColumn(df, name) == \E j \in 1..Len(df.columns) : df.columns[j] = name

\* repeatcheck.py lines 17-22: the file read as strings, with its name (here
\* its number in the listing) in a further column
WithSource(file, k) ==
  LET df == pd_read_csv(file, TRUE)
  IN  [columns |-> Append(df.columns, "__source_file"),
       rows |-> [i \in 1..Len(df.rows) |-> Append(df.rows[i], TextCell(str(k)))]]

\* repeatcheck.py lines 30-65
repeatcheck(csv_files) ==
  LET merged_df == concat([k \in 1..Len(csv_files) |-> WithSource(csv_files[k], k)])
      subset == { ColumnOf(merged_df, key_cols[c]) : c \in 1..Len(key_cols) }
      duplicates ==
        [merged_df EXCEPT !.rows = Pick(merged_df.rows,
                                        duplicated(merged_df, subset, "none"), 1)]
      cleaned_df == frame_drop_duplicates(merged_df, subset)
  IN  IF \E c \in 1..Len(key_cols) : ~HasColumn(merged_df, key_cols[c])
      THEN NoOutput
      ELSE [NoOutput EXCEPT
              !.written = IF duplicates.rows = <<>> THEN {"merged"}
                          ELSE {"merged", "duplicates"},
              !.merged = to_csv(cleaned_df),
              !.duplicates = IF duplicates.rows = <<>> THEN NoFile
                             ELSE to_csv(duplicates),
              !.final_duplicates =
                 Cardinality(duplicated(cleaned_df, subset, "none"))]

\* ---- the files the scripts are run on
MergeHeader == <<"Business Name", "Phone(s)">>
PhoneTexts == { <<>>, <<" ">>, NA, <<"N", "/", "a">>, <<"1">>, <<"x">> }
NameTexts == { <<"x">>, <<"y">> }
SourceTexts == { <<>>, <<" ">>, <<"1">>, <<"0", "1">>, <<"x">> }
KeyTexts == { <<>>, <<"x">> }
RepeatPhones == { <<>>, NA, <<"x">> }

FilesOf(header, rows, n) ==
  { [header |-> header, data |-> d] : d \in SeqsUpTo(rows, n) }

MergeFolders ==
  SeqsUpTo(FilesOf(MergeHeader, NameTexts \X PhoneTexts, MaxPostRows),
           MaxPostFiles)

Sources == FilesOf(MergeHeader, SourceTexts \X SourceTexts, MaxSourceRows)

RepeatHeader == <<"Business Name", "Phone", "Address">>

RepeatFolders ==
  SeqsUpTo(FilesOf(RepeatHeader, KeyTexts \X RepeatPhones \X NameTexts, MaxPostRows),
           MaxPostFiles)
  \cup SeqsUpTo(FilesOf(<<"Business Name", "Phone">>, KeyTexts \X RepeatPhones,
                        MaxPostRows), MaxPostFiles)

PostScripts == {"merge", "merge_unique", "remove_null", "repeatcheck"}

PostInputs(sc) ==
  CASE sc \in {"merge", "merge_unique"} -> MergeFolders
    [] sc = "remove_null" -> SeqsUpTo(Sources, 1)
    [] OTHER -> RepeatFolders

\* ---- the runs
\* merge.py and merge_unique.py: exit() when the folder holds no CSV file
MergeRun ==
  /\ script \in {"merge", "merge_unique"}
  /\ post_pc = "start"
  /\ IF post_in = <<>>
     THEN post_pc' = "exit" /\ UNCHANGED post_out
     ELSE /\ post_out' = merge(post_in, script = "merge_unique")
          /\ post_pc' = "done"
  /\ UNCHANGED << postfixed, post_in, post_again >>

\* remove_null.py: exit() when the source file is missing
RemoveNullRun ==
  /\ script = "remove_null"
  /\ post_pc = "start"
  /\ IF post_in = <<>>
     THEN post_pc' = "exit" /\ UNCHANGED post_out
     ELSE /\ post_out' = remove_null(post_in[1])
          /\ post_pc' = "done"
  /\ UNCHANGED << postfixed, post_in, post_again >>

\* remove_null.py run with the file it wrote as its source
RemoveNullAgain ==
  /\ script = "remove_null"
  /\ post_pc = "done"
  /\ post_again' = remove_null(post_out.merged)
  /\ post_pc' = "again"
  /\ UNCHANGED << postfixed, post_in, post_out >>

\* repeatcheck.py: exit() without CSV data or without the key columns
RepeatcheckRun ==
  /\ script = "repeatcheck"
  /\ post_pc = "start"
  /\ IF post_in = <<>>
     THEN post_pc' = "exit" /\ UNCHANGED post_out
     ELSE /\ post_out' = repeatcheck(post_in)
          /\ post_pc' = IF post_out'.written = {} THEN "exit" ELSE "done"
  /\ UNCHANGED << postfixed, post_in, post_again >>

NextPost == MergeRun \/ RemoveNullRun \/ RemoveNullAgain \/ RepeatcheckRun

InitPost ==
  /\ script \in PostScripts
  /\ BATCH_SIZE = 0
  /\ QueueInit
  /\ SspInit
  /\ ZcInit
  /\ BbInit
  /\ StartInit
  /\ post_pc = "start"
  /\ post_in \in PostInputs(script)
  /\ post_out = NoOutput
  /\ post_again = NoOutput

SpecPost == InitPost /\ [][NextPost]_vars

\* ================================================================ claims
MainOver == mainpc \in {"done", "exit_missing", "exit_format", "crashed"}

AllEnded == \A w \in Workers : Ended(w)

InCS(w) == th[w].pc \in {"cs_ok", "cs_fail", "cs_ext"}

IsFailedRow(r) == r.status[1] = "failed"

IsSuccessRow(r) == r.status[1] = "success"

\* the worker that holds entry id between its final failure and its failed row
FailedRowPending(id) ==
  \E w \in Workers : th[w].pc \in {"lock_fail", "cs_fail"} /\ th[w].zip_code.id = id

\* C1: in scraper_single_page2 every worker returns from scrape_worker once the
\* queue is empty, so main's join completes and the report is written: the run
\* is never left with no step to take before main has ended.
C1_WorkersReturn == script = "sp2" => (MainOver \/ ENABLED SP2Next)

\* C2: in car.com_updated, provided every browser started, once the workers of a
\* state have ended every entry put on the queue was taken once and has exactly
\* one report row.
C2_EveryQueuedZipReported ==
  ( /\ script = "car"
    /\ mainpc = "join"
    /\ AllEnded
    /\ \A w \in Workers : th[w].pc # "dead_start" )
  => \A i \in 1..Len(queued) :
       taken[queued[i].id] = 1 /\ Cardinality(RowsOf(queued[i].id)) = 1

\* C3: the attempts on an entry are numbered 1..MAX_RETRIES, none is made on an
\* entry that already has its report row (success, or failure of the last
\* attempt), and a failed attempt that is not the last is followed directly by
\* the attempt with the next number.
C3_AttemptState ==
  \A w \in Workers :
    th[w].pc \in {"attempt", "lock_ok", "cs_ok", "lock_fail", "cs_fail"}
    => /\ th[w].attempt \in 1..MAX_RETRIES
       /\ th[w].pc = "attempt" => RowsOf(th[w].zip_code.id) = {}

C3_AttemptStep ==
  \A w \in Workers :
    (th[w].pc = "attempt" /\ th'[w] # th[w])
    => \/ /\ th'[w].pc = "lock_ok"
          /\ th'[w].attempt = th[w].attempt
       \/ /\ th'[w].pc = "lock_fail"
          /\ th'[w].attempt = th[w].attempt
          /\ th[w].attempt = MAX_RETRIES
       \/ /\ th'[w].pc = "attempt"
          /\ th'[w].zip_code = th[w].zip_code
          /\ th[w].attempt < MAX_RETRIES
          /\ th'[w].attempt = th[w].attempt + 1

C3_Retries == [] C3_AttemptState /\ [][C3_AttemptStep]_vars

C3_Witness ==
  \E w \in Workers : th[w].pc = "attempt" /\ th[w].attempt = SP2_MAX_RETRIES

\* C4: an entry whose MAX_RETRIES attempts all failed has exactly one report row,
\* with records 0, file ERROR, a status beginning "failed" and attempts
\* MAX_RETRIES; an entry with fewer failures has no failed row; no entry has two
\* rows.
C4_FailedRows ==
  /\ \A i \in 1..Len(report_list) :
       IsFailedRow(report_list[i])
       => /\ report_list[i].records = 0
          /\ report_list[i].file = <<"ERROR">>
          /\ report_list[i].attempts = MAX_RETRIES
  /\ \A id \in DOMAIN fails :
       /\ Cardinality(RowsOf(id)) <= 1
       /\ fails[id] < MAX_RETRIES
          => \A i \in RowsOf(id) : ~IsFailedRow(report_list[i])
       /\ (fails[id] = MAX_RETRIES /\ ~FailedRowPending(id))
          => /\ Cardinality(RowsOf(id)) = 1
             /\ \A i \in RowsOf(id) : IsFailedRow(report_list[i])

C4_Witness ==
  /\ script = "car"
  /\ \E i, j \in 1..Len(report_list) :
       /\ IsFailedRow(report_list[i])
       /\ IsSuccessRow(report_list[j])
       /\ report_list[j].attempts = 2

\* C5: report_list, completed_zipcodes, the progress bar and all_data change
\* only in a step of the worker that holds progress_lock, and no two workers are
\* inside a progress_lock block together.
C5_Mutex ==
  /\ Cardinality({ w \in Workers : InCS(w) }) <= 1
  /\ \A w \in Workers : InCS(w) => progress_lock = w

C5_LockedStep ==
  (mainpc = "join" /\ mainpc' = "join" /\ sharedvars' # sharedvars)
  => \E w \in Workers : progress_lock = w /\ InCS(w) /\ th'[w] # th[w]

C5_LockHeld == [] C5_Mutex /\ [][C5_LockedStep]_vars

C5_Witness ==
  \E w, v \in Workers :
    /\ th[w].pc = "cs_ext"
    /\ th[v].pc \in {"lock_ok", "lock_fail", "lock_ext"}

\* C6: every queue entry is obtained by at most one worker, and the entries
\* obtained together with those still queued are exactly those main put.
C6_TakenOnce ==
  \A id \in DOMAIN taken :
    /\ taken[id] <= 1
    /\ taken[id] + Cardinality({ i \in 1..Len(zip_queue) : zip_queue[i].id = id })
       = Cardinality({ i \in 1..Len(queued) : queued[i].id = id })

C6_Witness ==
  \E w, v \in Workers :
    /\ w # v
    /\ th[w].zip_code.id # 0
    /\ th[v].zip_code.id # 0
    /\ zip_queue = <<>>

\* the lines of the state's CSV on disk
OnDisk ==
  IF DealersCsvPath(state_abbr) \in DOMAIN fs
  THEN { fs[DealersCsvPath(state_abbr)][k] :
           k \in 2..Len(fs[DealersCsvPath(state_abbr)]) }
  ELSE {}

\* C7 as stated: once BATCH_SIZE records have been collected, the records of the
\* ZIPs scraped so far are in the state's CSV by the time a further ZIP has
\* been scraped.
C7_FlushedAtThreshold ==
  (script = "car" /\ mainpc = "join")
  => \A i, j \in 1..Len(report_list) :
       ( /\ i < j
         /\ IsSuccessRow(report_list[i])
         /\ SumRecords(SubSeq(report_list, 1, i)) >= BATCH_SIZE )
       => \A k \in 1..report_list[i].records :
            <<report_list[i].zip, k>> \in OnDisk

\* C7 amended: the CSV files change only in the step main takes after every
\* worker of the state has ended, which appends all of all_data; a batch holds
\* at most BATCH_SIZE ZIPs.
C7_WriteStep ==
  (script = "car" /\ fs' # fs)
  => /\ mainpc = "join"
     /\ AllEnded
     /\ mainpc' # "join"
     /\ Len(all_data) > 0
     /\ \A k \in 1..Len(all_data) :
          all_data[k] \in { fs'[DealersCsvPath(state_abbr)][m] :
                              m \in 2..Len(fs'[DealersCsvPath(state_abbr)]) }

C7_BatchBound == \A w \in Workers : Len(th[w].batch) <= BATCH_SIZE

C7_WrittenAfterJoin == [] C7_BatchBound /\ [][C7_WriteStep]_vars

C7_Witness ==
  /\ script = "car"
  /\ mainpc = "join"
  /\ Len(all_data) >= BATCH_SIZE
  /\ Len(report_list) >= 2
  /\ OnDisk = {}

\* C8: a ZIP with a success row of an earlier run for a state is, in every later
\* run, neither put on the queue of that state nor held by a worker.
C8_ProcessedSkipped ==
  \A s \in succeeded :
    (s[1] < run /\ s[2] = state_abbr /\ mainpc = "join")
    => /\ \A i \in 1..Len(queued) : queued[i].zip # s[3]
       /\ \A w \in Workers :
            /\ th[w].zip_code.id # 0 => th[w].zip_code.zip # s[3]
            /\ \A i \in 1..Len(th[w].batch) : th[w].batch[i].zip # s[3]

C8_Witness ==
  /\ run = 2
  /\ mainpc = "join"
  /\ Len(queued) > 0
  /\ \E s \in succeeded :
       /\ s[1] = 1
       /\ s[2] = state_abbr
       /\ \E i \in 1..Len(skipped_zips) : skipped_zips[i] = s[3]

\* C9: after the report of a state with failed ZIPs is written, the loop over
\* the JSON files goes on to the next file.
C9_ContinuesAfterFailures ==
  ( /\ script = "car"
    /\ last_report # <<>>
    /\ files_left > 0
    /\ \E i \in 1..Len(last_report.rows) : IsFailedRow(last_report.rows[i]) )
  => mainpc = "loop"

\* C10: when the input is missing the script ends through its printed exit,
\* with no worker thread and no browser started and no CSV or report written.
C10_MissingInput ==
  (~input_ok /\ mainpc # "start")
  => /\ mainpc = "exit_missing"
     /\ threads = 0
     /\ \A w \in Workers : th[w].pc = "idle" /\ ~th[w].driver
     /\ ~browsers
     /\ ~csv_written
     /\ reports_written = 0

C10_Witness == mainpc = "exit_missing" /\ ~input_ok

\* the file loaded last did not hold exactly one state key
BadFileLoaded == zip_json_len \notin {-1, 1}

\* C11 as stated: after a JSON file without exactly one state key, the script
\* (either one) has left through its exit.
C11_ExitsOnBadFormat == BadFileLoaded => mainpc = "exit_format"

\* C11 amended: after such a file scraper_single_page2 has left through exit()
\* with nothing queued, started or written; car.com_updated is back at the head
\* of its loop over the JSON files with nothing of that file queued, no worker
\* started and no report written for it, and the later files are still to come.
C11_BadFormatState ==
  BadFileLoaded
  => /\ zip_queue = <<>>
     /\ queued = <<>>
     /\ threads = 0
     /\ \A w \in Workers : th[w].pc = "idle"
     /\ last_report = <<>>
     /\ IF script = "sp2"
        THEN /\ mainpc = "exit_format"
             /\ reports_written = 0
             /\ ~browsers
             /\ ~csv_written
        ELSE /\ mainpc \in {"loop", "done"}
             /\ mainpc = "done" => files_left = 0

C11_BadFormatStep ==
  (zip_json_len' \notin {-1, 1} /\ (mainpc = "start" \/ opened' = opened + 1))
  => /\ reports_written' = reports_written
     /\ fs' = fs
     /\ browsers' = browsers
     /\ script = "car" => (mainpc' = "loop" /\ files_left' = files_left - 1)

C11_BadFormatHandled == [] C11_BadFormatState /\ [][C11_BadFormatStep]_vars

C11_Witness ==
  /\ script = "car"
  /\ zip_json_len = 2
  /\ mainpc = "loop"
  /\ files_left > 0

\* C12: a written report has the columns zip, records, file, time_sec, status,
\* attempts; its last row, and no other, is the TOTAL row, with status
\* "completed" and records equal to the sum of the records of the rows before
\* it, a failed row counting 0.
C12_ReportShape ==
  last_report # <<>>
  => LET rows == last_report.rows
         n == Len(rows)
     IN  /\ last_report.header = ReportFields
         /\ n >= 1
         /\ \A i \in 1..n :
              /\ DOMAIN rows[i] \ {"entry"} = { ReportFields[k] : k \in 1..6 }
              /\ (rows[i].zip = <<"TOTAL">>) <=> (i = n)
              /\ IsFailedRow(rows[i]) => rows[i].records = 0
         /\ rows[n].status = <<"completed">>
         /\ rows[n].records = SumRecords(SubSeq(rows, 1, n - 1))

C12_Witness ==
  /\ last_report # <<>>
  /\ \E i, j \in 1..Len(last_report.rows) :
       /\ IsFailedRow(last_report.rows[i])
       /\ IsSuccessRow(last_report.rows[j])
       /\ last_report.rows[j].records = 2

\* C13: whatever runs of car.com_updated have been made, a state's dealers CSV
\* has the header as its first line and nowhere else, and a step never removes
\* or changes a line the file already holds: it only appends.
C13_OneHeader ==
  script = "car"
  => \A st \in StateAbbrs :
       DealersCsvPath(st) \in DOMAIN fs
       => LET content == fs[DealersCsvPath(st)]
          IN  /\ Len(content) >= 2
              /\ content[1] = CsvHeader
              /\ \A k \in 2..Len(content) : content[k] # CsvHeader

C13_AppendStep ==
  script = "car"
  => \A p \in DOMAIN fs :
       /\ p \in DOMAIN fs'
       /\ Len(fs'[p]) >= Len(fs[p])
       /\ SubSeq(fs'[p], 1, Len(fs[p])) = fs[p]

C13_AppendOnly == [] C13_OneHeader /\ [][C13_AppendStep]_vars

C13_Witness ==
  /\ run = 2
  /\ csv_written
  /\ \E st \in StateAbbrs :
       /\ DealersCsvPath(st) \in DOMAIN fs
       /\ Len(fs[DealersCsvPath(st)]) = 4
       /\ output_file = DealersCsvPath(st)
       /\ \E s \in succeeded : s[1] = 1 /\ s[2] = st

\* the queue entries whose ZIP, stripped, is zip
EntriesOf(zip) == { j \in 1..Len(queued) : Strip(queued[j].zip) = zip }

C16_HeadlessWhenSet == (script = "car" /\ HEADLESS) => ~shown

\* C19: a browser that fails to start costs the ZIP being scraped one attempt
\* in scraper_single_page2; in car.com_updated, once the workers of a state have
\* ended, some of them on a browser that did not start and none on the queue
\* running empty under it, no entry is left on the queue and every queued entry
\* has a report row.
C19_StartFailureIsPerItem ==
  /\ script = "sp2"
     => \A w \in Workers :
          (th[w].pc = "attempt" /\ th[w].attempt > 1)
          => fails[th[w].zip_code.id] = th[w].attempt - 1
  /\ ( /\ script = "car"
       /\ mainpc = "join"
       /\ AllEnded
       /\ \E w \in Workers : th[w].pc = "dead_start"
       /\ \A w \in Workers : th[w].pc # "dead_empty" )
     => /\ zip_queue = <<>>
        /\ \A i \in 1..Len(queued) : RowsOf(queued[i].id) # {}

\* C15: a record's inventory data was read from the inventory page of its own
\* card, the page its thread loaded, whenever it was read from a page at all.
C15_ReadsOwnPage ==
  \A k \in 1..Len(local_dealers) :
    local_dealers[k].inv \in
      { <<>>, InvDoc(local_dealers[k].page, local_dealers[k].card) }

\* how many rows of the state's CSV files hold the record r
Occurrences(r) ==
  Cardinality({ fm \in (DOMAIN state_files) \X (1..(MaxPages * MaxCards)) :
                  /\ fm[2] <= Len(state_files[fm[1]])
                  /\ state_files[fm[1]][fm[2]] = r })

\* C18: when scrape_state has returned, every record of local_dealers is in
\* exactly one row of the state's CSV files.
C18_WrittenOnce ==
  (script = "ssp" /\ ssp_pc = "returned")
  => \A k \in 1..Len(local_dealers) : Occurrences(local_dealers[k]) = 1

\* the abbreviation of the state a key of zip_data names, whichever way the
\* key separates the words of the name
OwnAbbr(state) ==
  get(STATE_ABBR, [i \in 1..Len(state) |-> IF state[i] = "_" THEN "-" ELSE state[i]],
      <<>>)

\* C17: when save_to_json_per_state_abbr is done there is one file per state
\* of zip_data, named by the state's own abbreviation and holding that
\* abbreviation as its one key with the state's ZIP list as the value.
C17_OneFilePerState ==
  (script = "zc" /\ zc_pc = "done")
  => /\ Cardinality(DOMAIN json_files) = Len(zip_data)
     /\ \A k \in 1..Len(zip_data) :
          LET abbr == OwnAbbr(zip_data[k][1])
          IN  /\ abbr \in DOMAIN json_files
              /\ json_files[abbr] = (abbr :> zip_data[k][2])

\* whether the widgets enable an operation
OpEnabled(op, w) ==
  CASE op = "duplicates" -> w.rm_dupes
    [] op = "missing" -> w.miss_strategy # "none"
    [] op = "conversion" -> w.num_cols_convert # {} \/ w.dt_cols_convert # {}
    [] op = "outliers" -> w.out_enable /\ w.out_cols # {}
    [] op = "scaling" -> w.scale_enable /\ w.scale_cols_sel # {}
    [] op = "filter" -> Strip(w.filter_query) # <<>>
    [] op = "rename" -> w.ren_enable

\* the operations the widgets enable, in the fixed order
EnabledOps(w) ==
  LET Test(op) == OpEnabled(op, w)
  IN  SelectSeq(<<"duplicates", "missing", "conversion", "outliers", "scaling",
                  "filter", "rename">>, Test)

\* the operations of the last run are chained, from df_raw to df_out
Chained ==
  /\ \A k \in 1..Len(steps) :
       steps[k].before = IF k = 1 THEN df_raw ELSE steps[k - 1].after
  /\ df_out = IF steps = <<>> THEN df_raw ELSE steps[Len(steps)].after

\* C20: after Apply the operations that ran are exactly the enabled ones, in
\* the fixed order, each on the result of the one before it, so a disabled one
\* changes nothing; without Apply df_out is df_raw and no download is offered.
C20_ApplyRunsEnabledInOrder ==
  script = "bb"
  => /\ bb_pc = "applied"
        => /\ [k \in 1..Len(steps) |-> steps[k].op] = EnabledOps(widgets)
           /\ Chained
     /\ bb_pc \in {"shown", "set"}
        => /\ df_out = df_raw
           /\ ~download_button

\* C21: main starts min(THREAD_COUNT, number of ZIPs on the queue at start)
\* workers: once it waits for them, the number of threads started is the queue's
\* first size capped at THREAD_COUNT (10 or 5); never more than THREAD_COUNT
\* workers are alive; and with an empty queue no worker is started.
C21_ThreadsStarted ==
  /\ mainpc = "join" =>
       threads = (IF total_zipcodes < THREAD_COUNT THEN total_zipcodes
                  ELSE THREAD_COUNT)
  /\ alive <= THREAD_COUNT
  /\ Cardinality({ w \in Workers : ~Ended(w) }) <= THREAD_COUNT
  /\ THREAD_COUNT = (IF script = "sp2" THEN 10 ELSE 5)
  /\ total_zipcodes = 0 => threads = 0 /\ alive = 0

\* the queue was longer than THREAD_COUNT and THREAD_COUNT workers, all of them
\* alive, have been started
C21_Witness ==
  /\ mainpc = "join"
  /\ total_zipcodes > THREAD_COUNT
  /\ threads = THREAD_COUNT
  /\ alive = THREAD_COUNT
  /\ zip_queue # <<>>

\* C22: in scraper_single_page2, once every worker has terminated, report_list
\* holds exactly one row for every entry of the input ZIP list and the progress
\* bar was advanced total_zipcodes times, blank entries included.
C22_OneRowPerEntry ==
  ( /\ script = "sp2"
    /\ mainpc \in {"join", "done"}
    /\ AllEnded )
  => /\ \A i \in 1..Len(queued) : Cardinality(RowsOf(queued[i].id)) = 1
     /\ Len(report_list) = Len(queued)
     /\ progress_bar = total_zipcodes

IsSuccess(row) == row.status = <<"success">>

\* the rows of report_list that are success rows
SuccessRows == SelectSeq(report_list, IsSuccess)

\* the rows of data whose first column is zip
RowsWithZip(data, zip) == { k \in 1..Len(data) : data[k][1] = zip }

\* C23: in car.com_updated, once every worker has ended, all_data holds as many
\* dealer rows as the success rows of report_list count in records, in total
\* and for each ZIP; every row of all_data carries the ZIP of a success row, so
\* a ZIP that only failed has no row; and no entry has more than one success row.
C23_RowsMatchReport ==
  ( /\ script = "car"
    /\ mainpc = "join"
    /\ AllEnded )
  => /\ Len(all_data) = SumRecords(SuccessRows)
     /\ \A k \in 1..Len(all_data) :
          \E i \in 1..Len(SuccessRows) : SuccessRows[i].zip = all_data[k][1]
     /\ \A i \in 1..Len(queued) :
          LET zip == queued[i].zip
          IN  /\ Cardinality(RowsWithZip(all_data, zip))
                   = SumRecords(SelectSeq(SuccessRows, LAMBDA r : r.zip = zip))
              /\ Cardinality({ j \in RowsOf(queued[i].id) :
                                 IsSuccess(report_list[j]) }) <= 1

\* the workers have ended with a ZIP that succeeded on its second attempt and
\* a ZIP that failed
C23_Witness ==
  /\ script = "car"
  /\ mainpc = "join"
  /\ AllEnded
  /\ all_data # <<>>
  /\ \E i \in 1..Len(report_list) :
       IsSuccess(report_list[i]) /\ report_list[i].attempts = 2
  /\ \E i \in 1..Len(report_list) : ~IsSuccess(report_list[i])

\* C24: within one run no ZIP is scraped more than once, whatever the input
\* list, one that repeats a ZIP included: no two rows of report_list carry the
\* same ZIP, and in scraper_single_page2 no file <STATE>_<zip>.csv is written
\* for two entries of the queue.
C24_NoZipTwice ==
  /\ \A i, j \in 1..Len(report_list) :
       i # j => report_list[i].zip # report_list[j].zip
  /\ script = "sp2" =>
       \A i, j \in 1..Len(SuccessRows) :
         SuccessRows[i].entry # SuccessRows[j].entry
           => SuccessRows[i].file # SuccessRows[j].file

\* the first columns of the data rows of the dealers CSV of the current state
FirstColumns ==
  LET p == DealersCsvPath(state_abbr)
  IN  IF p \in DOMAIN fs
      THEN { fs[p][k][1] : k \in { i \in 1..Len(fs[p]) : i > 1 } }
      ELSE {}

\* the entries of the list are split between the queue and skipped_zips
C25_Partition ==
  ( /\ script = "car"
    /\ taken # <<>> )
  => /\ Len(queued) + Len(skipped_zips) = Len(taken)
     /\ \A i \in 1..Len(queued) :
          /\ queued[i].zip = Strip(queued[i].zip)
          /\ queued[i].zip \notin FirstColumns
     /\ \A i \in 1..Len(skipped_zips) :
          /\ skipped_zips[i] = Strip(skipped_zips[i])
          /\ skipped_zips[i] \in FirstColumns

\* a step that opens a well-formed file and queues nothing
C25_AllSkippedStep ==
  ( /\ script = "car"
    /\ opened' = opened + 1
    /\ zip_json_len' = 1
    /\ queued' = <<>> )
  => /\ mainpc' = "loop"
     /\ threads' = 0
     /\ th' = [w \in Workers |-> Local0]
     /\ fs' = fs
     /\ reports_written' = reports_written
     /\ last_report' = <<>>

\* C25: in car.com_updated every entry of a state's list is, stripped, either
\* skipped or queued, never both nor neither; it is skipped exactly when it is
\* the first column of a data row of the state's dealers CSV; and when all are
\* skipped no worker is started, the CSV is left alone and no report is written.
C25_SkippedOrQueued == [](C25_Partition) /\ [][C25_AllSkippedStep]_vars

\* a list of two different entries has just been skipped whole
C25_Witness ==
  /\ script = "car"
  /\ mainpc = "loop"
  /\ Len(taken) = 2
  /\ queued = <<>>
  /\ Len(skipped_zips) = 2
  /\ skipped_zips[1] # skipped_zips[2]

\* the workers that hold a browser that was started and not quit
LiveBrowsers == { w \in Workers : th[w].driver }

C27_RangesDisjoint ==
  /\ \A r \in DOMAIN state_files : r[2] - r[1] + 1 = Len(state_files[r])
  /\ \A r, q \in DOMAIN state_files : r # q => (r[2] < q[1] \/ q[2] < r[1])
  /\ \A r \in DOMAIN state_files :
       r[1] = 1 \/ \E q \in DOMAIN state_files : q[2] + 1 = r[1]

\* scrape_state has passed its loop over the pages
PagesDone ==
  ssp_pc = "final" \/ (ssp_pc = "returned" /\ init_attempt < DRIVER_RETRIES)

\* record d is a row of one of the state's files
Saved(d) ==
  \E r \in DOMAIN state_files :
    \E j \in 1..Len(state_files[r]) : state_files[r][j] = d

C28_PagesState ==
  /\ ssp_pc \in {"page", "cards"} => page \in 1..(MaxPages + 1) /\ pbar = page - 1
  /\ PagesDone => page = MaxPages + 1 /\ pbar = MaxPages
  /\ \A k \in 1..Len(local_dealers) :
       (local_dealers[k].page < page \/ ssp_pc = "returned")
         => Saved(local_dealers[k])

C28_PagesStep ==
  /\ page' # page => page' = page + 1 /\ pbar' = page
  /\ pbar' # pbar => pbar' = pbar + 1 /\ page' = page + 1
  /\ \A k \in 1..Len(local_dealers) :
       k <= Len(local_dealers') /\ local_dealers'[k] = local_dealers[k]

\* C28: a listing page that fails does not end the state: the pages of the range
\* are attempted one after the other, the state's progress bar is advanced once
\* with every page (as many times as the range has pages when the loop is
\* over), and the dealers of the pages that succeeded stay in the list that is
\* returned and are saved.
C28_FailedPageGoesOn == [](C28_PagesState) /\ [][C28_PagesStep]_vars

\* the loop is over, the last page failed to load (the browser still holds a
\* document of page 1) and the dealers of page 1 are saved
C28_Witness ==
  /\ ssp_pc = "final"
  /\ MaxPages >= 2
  /\ driver_doc # <<>>
  /\ driver_doc[2] = 1
  /\ pbar = MaxPages
  /\ local_dealers # <<>>
  /\ \A k \in 1..Len(local_dealers) : Saved(local_dealers[k])

\* init_attempt counts the starts that failed; a start that succeeds leaves it
C29_DriverState ==
  /\ init_attempt \in 0..3
  /\ ssp_pc \in {"init", "page", "cards", "final"} => init_attempt < 3
  /\ (ssp_pc = "returned" /\ init_attempt = 3) =>
       /\ local_dealers = <<>>
       /\ page = 0
       /\ driver_doc = <<>>
       /\ futures = <<>>
       /\ pbar = 0
       /\ state_files = <<>>
       /\ ~zip_file.made

C29_DriverStep ==
  /\ init_attempt' # init_attempt =>
       ssp_pc = "init" /\ init_attempt' = init_attempt + 1
  /\ (ssp_pc = "init" /\ ssp_pc' = "returned") => init_attempt' = 3
  /\ ssp_pc # "init" => ssp_pc' # "init"

\* C29: initialize_driver makes at most 3 start attempts, none after the first
\* that succeeds, and gives None after 3 failures; scrape_state then returns an
\* empty list without a page fetched, a CSV written or a zip file made.
C29_NoDriverNoWork == [](C29_DriverState) /\ [][C29_DriverStep]_vars

\* three starts failed and scrape_state has returned
C29_Witness ==
  /\ script = "ssp"
  /\ ssp_pc = "returned"
  /\ init_attempt = 3
  /\ local_dealers = <<>>

\* C30: scrape_inventory_page makes at most 3 loads and returns the page of its
\* first successful load, or None when all 3 fail; scrape_dealer then still
\* returns the record of its card, with nothing read from an inventory page.
C30_InventoryPage ==
  \A i \in DOMAIN futures :
    /\ futures[i].attempt < 3
    /\ (futures[i].pc = "done" /\ futures[i].inventory
        /\ futures[i].result # None) =>
         /\ futures[i].result.page = page
         /\ futures[i].result.card = i
         /\ IF futures[i].result.inv = <<>>
            THEN futures[i].attempt = 2
            ELSE futures[i].result.inv = InvDoc(page, i)

\* ---- merge.py, merge_unique.py: the report
\* a Phone(s) field of a CSV file that is present, not blank and not "N/A"
TextHasPhone(f) ==
  /\ f \notin NaTexts
  /\ Strip(f) # <<>>
  /\ lower(Strip(f)) # <<"n", "/", "a">>

RECURSIVE SumOf(_, _)
SumOf(rep, n) == IF n = 0 THEN [rows |-> 0, with_phone |-> 0, without_phone |-> 0]
                 ELSE LET t == SumOf(rep, n - 1)
                      IN  [rows |-> t.rows + rep[n].rows,
                           with_phone |-> t.with_phone + rep[n].with_phone,
                           without_phone |-> t.without_phone + rep[n].without_phone]

\* a row of a file, its missing fields (empty or an N/A text) made alike
LineFields(line) == [j \in 1..Len(line) |-> IF line[j] \in NaTexts THEN <<>> ELSE line[j]]

\* the rows of the folder's files, as they stand in the files
FolderLines ==
  UNION { { LineFields(post_in[k].data[i]) : i \in 1..Len(post_in[k].data) } :
          k \in 1..Len(post_in) }

C31_Counts ==
  LET n == Len(post_in)
      rep == post_out.report
  IN  /\ Len(rep) = n + 1
      /\ \A r \in 1..(n + 1) : rep[r].with_phone + rep[r].without_phone = rep[r].rows
      /\ \A k \in 1..n :
           /\ rep[k].rows = Len(post_in[k].data)
           /\ rep[k].with_phone =
                Cardinality({ i \in 1..Len(post_in[k].data) :
                                TextHasPhone(post_in[k].data[i][2]) })
      /\ script = "merge" =>
           /\ rep[n + 1].rows = SumOf(rep, n).rows
           /\ rep[n + 1].with_phone = SumOf(rep, n).with_phone
           /\ rep[n + 1].without_phone = SumOf(rep, n).without_phone
      /\ script = "merge_unique" => rep[n + 1].rows <= SumOf(rep, n).rows

C31_Distinct ==
  script = "merge_unique" =>
    post_out.report[Len(post_in) + 1].rows = Cardinality(FolderLines)

\* C31: every row of the merge reports has with_phone + without_phone = rows,
\* a row having a phone exactly when its Phone(s) field is present, not blank
\* and not "N/A" in any letter case; the TOTAL row of merge.py holds the sums
\* of the per-file values, and the TOTAL rows of merge_unique.py is the number
\* of distinct rows, at most the sum of the per-file rows.
C31_ReportCounts ==
  (script \in {"merge", "merge_unique"} /\ post_pc = "done") =>
    C31_Counts /\ C31_Distinct

\* ---- remove_null.py
\* out holds lines of src, each at the place of its first occurrence in src
IsSubsequence(out, src) ==
  \E f \in [1..Len(out) -> 1..Len(src)] :
    /\ \A i \in 1..Len(out) : src[f[i]] = out[i]
    /\ \A i \in 1..Len(out) : \A j \in 1..(f[i] - 1) : src[j] # out[i]
    /\ \A i, j \in 1..Len(out) : i < j => f[i] < f[j]

C32_Clean ==
  LET out == post_out.merged.data
  IN  /\ \A i \in 1..Len(out) : \A j \in 1..Len(out[i]) :
           out[i][j] \notin NaTexts /\ Strip(out[i][j]) # <<>>
      /\ \A i, j \in 1..Len(out) : out[i] = out[j] => i = j

C32_FromSource == IsSubsequence(post_out.merged.data, post_in[1].data)

C32_Idempotent ==
  post_pc = "again" => post_again.merged.data = post_out.merged.data

\* C32: the output of remove_null has no row with a missing or blank field and
\* no two equal rows, every output row is a row of the source, in the source's
\* order of first occurrences, and remove_null run on its own output writes
\* the same rows again.
C32_RemoveNull ==
  (script = "remove_null" /\ post_pc \in {"done", "again"}) =>
    C32_Clean /\ C32_FromSource /\ C32_Idempotent

\* ---- repeatcheck.py
\* the rows of the folder's files in merge order, each with the number of its
\* file, as to_csv writes them (a missing field is written empty)
RECURSIVE MergedLines(_)
MergedLines(k) ==
  IF k = 0 THEN <<>>
  ELSE MergedLines(k - 1) \o
       [i \in 1..Len(post_in[k].data) |->
          Append(LineFields(post_in[k].data[i]), str(k))]

\* the (Business Name, Phone, Address) fields of a written row
LineKey(line) == SubSeq(line, 1, 3)

RECURSIVE FirstOfKey(_)
FirstOfKey(lines) ==
  IF lines = <<>> THEN <<>>
  ELSE LET init == SubSeq(lines, 1, Len(lines) - 1)
           last == lines[Len(lines)]
       IN  IF \E i \in 1..Len(init) : LineKey(init[i]) = LineKey(last)
           THEN FirstOfKey(init)
           ELSE Append(FirstOfKey(init), last)

RECURSIVE Repeated(_, _)
Repeated(lines, n) ==
  IF n = 0 THEN <<>>
  ELSE IF \E i \in 1..Len(lines) : i # n /\ LineKey(lines[i]) = LineKey(lines[n])
       THEN Append(Repeated(lines, n - 1), lines[n])
       ELSE Repeated(lines, n - 1)

C33_ColumnsMissing ==
  \E c \in 1..3 : \A j \in 1..Len(post_in[1].header) :
    post_in[1].header[j] # RepeatHeader[c]

\* C33: the cleaned output of repeatcheck holds, for every (Business Name,
\* Phone, Address) key of the merged data, exactly the first row with that key
\* in merge order, so that no two cleaned rows share a key and the final
\* re-check finds no duplicates; the duplicates file holds exactly the rows
\* whose key occurs more than once; with a key column missing the script exits
\* and writes no file.
C33_Repeatcheck ==
  (script = "repeatcheck" /\ post_pc # "start" /\ post_in # <<>>) =>
    LET lines == MergedLines(Len(post_in))
        clean == post_out.merged.data
    IN  IF C33_ColumnsMissing
        THEN post_pc = "exit" /\ post_out = NoOutput
        ELSE /\ post_pc = "done"
             /\ "merged" \in post_out.written
             /\ clean = FirstOfKey(lines)
             /\ \A i, j \in 1..Len(clean) :
                  LineKey(clean[i]) = LineKey(clean[j]) => i = j
             /\ post_out.final_duplicates = 0
             /\ post_out.duplicates.data = Repeated(lines, Len(lines))
             /\ "duplicates" \in post_out.written <=> Repeated(lines, Len(lines)) # <<>>

\* a run that found one key in both files, under an N/A and an empty Phone,
\* and another key once
C33_Witness ==
  /\ script = "repeatcheck"
  /\ post_pc = "done"
  /\ Len(post_out.duplicates.data) = 2
  /\ Len(post_out.merged.data) = 2
  /\ \E k \in 1..Len(post_in) : \E i \in 1..Len(post_in[k].data) :
       post_in[k].data[i][2] = NA

\* ---- blackbox.py: the filter, rename_columns, remove_outliers_z
\* the filter step of the last Apply; 0 when the query was blank
FilterStep ==
  IF \E k \in 1..Len(steps) : steps[k].op = "filter"
  THEN CHOOSE k \in 1..Len(steps) : steps[k].op = "filter"
  ELSE 0

QueryFailed ==
  /\ FilterStep # 0
  /\ query(steps[FilterStep].before, widgets.filter_query).raised

C34_DataKept ==
  /\ warning
  /\ steps[FilterStep].after = steps[FilterStep].before

C34_LaterSteps ==
  /\ ~exception
  /\ download_button
  /\ IF widgets.ren_enable
     THEN /\ Len(steps) = FilterStep + 1
          /\ steps[Len(steps)].op = "rename"
          /\ steps[Len(steps)].before = steps[FilterStep].after
          /\ df_out = steps[Len(steps)].after
     ELSE /\ Len(steps) = FilterStep
          /\ df_out = steps[FilterStep].after

\* C34: after Apply with a filter query that failed to evaluate, a warning is
\* shown and the data is as the step before the filter left it; the renaming,
\* when enabled, is carried out on that data, and the preview and the download
\* of its result are offered.
C34_FailedFilterGoesOn ==
  (script = "bb" /\ bb_pc = "applied" /\ QueryFailed) =>
    C34_DataKept /\ C34_LaterSteps

\* the rename steps of the last Apply
RenameSteps == { k \in 1..Len(steps) : steps[k].op = "rename" }

\* C35: a call of rename_columns that returns changes column names only: the
\* number of columns, the rows and their cell values and the column types are
\* those of its argument, and calling it again on its result with the same
\* flags gives the same column names.
C35_RenameOnlyNames ==
  script = "bb" =>
    \A k \in RenameSteps :
      LET arg == steps[k].before
          once == steps[k].after
          twice == rename_columns(once, widgets.to_lower, widgets.strip_spaces,
                                  widgets.unders)
      IN  /\ Len(once.columns) = Len(arg.columns)
          /\ once.rows = arg.rows
          /\ once.dtypes = arg.dtypes
          /\ \A j \in Cols(arg) :
               /\ once.columns[j].int = arg.columns[j].int
               /\ once.columns[j].num = arg.columns[j].num
          /\ ~twice.raised
          /\ twice.df = once

\* the header " A b" renamed with all three flags set, on a frame with rows
C35_Witness ==
  /\ script = "bb"
  /\ bb_pc = "applied"
  /\ RenameSteps # {}
  /\ widgets.to_lower /\ widgets.strip_spaces /\ widgets.unders
  /\ df_out.columns[1].name = <<"a", "_", "b">>
  /\ df_raw.columns[1].name = Header
  /\ df_out.rows # <<>>

\* ---- remove_outliers_z
\* the standard deviation of column c is zero (all its numbers are equal) or
\* undefined (fewer than two numbers)
NoDeviation(df, c) ==
  \/ Cardinality(NumIdx(df, c)) < 2
  \/ \A i, k \in NumIdx(df, c) : df.rows[i][c] = df.rows[k][c]

\* no selected column can be the reason to remove row i
Harmless(df, cols, i) ==
  \A c \in cols :
    \/ c \notin Cols(df)
    \/ df.dtypes[c] # "num"
    \/ isna(df.rows[i][c])
    \/ NoDeviation(df, c)

\* C36: remove_outliers_z only removes rows: its result holds rows of its
\* argument, in their order and with their cell values; a row whose value is
\* missing in a selected column is not removed for that column, and a selected
\* column that is absent, not numeric or without a standard deviation (zero or
\* undefined) removes no row.
C36_OnlyRemovesRows ==
  (script = "outliers" /\ bb_pc = "applied") =>
    /\ df_out.columns = df_raw.columns
    /\ df_out.dtypes = df_raw.dtypes
    /\ \E K \in SUBSET (1..Len(df_raw.rows)) :
         /\ df_out.rows = Pick(df_raw.rows, K, 1)
         /\ \A i \in 1..Len(df_raw.rows) :
              Harmless(df_raw, widgets.out_cols, i) => i \in K

\* a row with a missing value in the selected column is kept while the row
\* with 9 is removed
C36_Witness ==
  /\ script = "outliers"
  /\ bb_pc = "applied"
  /\ widgets.out_cols = {1}
  /\ Len(df_out.rows) = Len(df_raw.rows) - 1
  /\ \E i \in 1..Len(df_out.rows) : isna(df_out.rows[i][1])

\* ---- zipcode.py: the USPS ranges
\* the list made for the i-th item of zip_ranges
UspsOf(i) == get(zip_data, zip_ranges[i][1], <<>>)

\* C37: every ZIP that get_zip_codes_from_usps_format makes is a string of
\* exactly 5 decimal digits, the range's number padded with zeros on the left
\* (for ranges below 10000 too), and the list of a state is in ascending order
\* within each of its ranges.
C37_FiveDigits ==
  (script = "zc" /\ choice = <<"2">> /\ zc_pc \in {"save", "done"}) =>
    \A i \in 1..Len(zip_ranges) :
      LET firsts == zip_ranges[i][2]
          zips == UspsOf(i)
      IN  /\ Len(zips) = MaxRange * Len(firsts)
          /\ \A r \in 1..Len(firsts) : \A k \in 1..MaxRange :
               LET z == zips[(r - 1) * MaxRange + k]
               IN  /\ Len(z) = 5
                   /\ IsDigits(z)
                   /\ DigitsValue(z) = firsts[r] + k - 1
                   /\ k > 1 => StrLess(zips[(r - 1) * MaxRange + k - 1], z)

\* the lists are made: Connecticut's holds its two ranges, both below 10000
C37_Witness ==
  /\ script = "zc"
  /\ choice = <<"2">>
  /\ zc_pc = "save"
  /\ get(zip_data, Connecticut, <<>>)[1] = <<"0", "6", "0", "0", "1">>
  /\ get(zip_data, Connecticut, <<>>)[MaxRange + 1] = <<"0", "6", "4", "0", "1">>
====
